---- MODULE Spec2Model ----
(***************************************************************************)
(* Model of the Merkle batching commit layer of military-audit-log:        *)
(*   internal/core/merkle.go   - tree construction, proofs, verification   *)
(*   internal/core/service.go  - MerkleBatcher (NewMerkleBatcher, Add,     *)
(*                               Close, loop with its flush closure)       *)
(*                                                                         *)
(* Byte strings are sequences of blocks.  A block is either an opaque run  *)
(* of w input bytes ("raw", told apart by id) or one SHA-256 digest        *)
(* ("sha256", 32 bytes) that remembers the exact byte string it was        *)
(* computed from.  The digest is therefore collision-free, and two byte    *)
(* strings are equal exactly when their block sequences are equal.         *)
(*                                                                         *)
(* A Go error is a record [isNil, msg]; msg is a sequence of tokens, a     *)
(* token being "%" or a chunk of text without "%".  A nil error and a      *)
(* non-nil error with the empty message are different values.              *)
(***************************************************************************)
EXTENDS Integers, Sequences, FiniteSets, TLC

\* ---- bounds of the model --------------------------------------------------
NumProducers == 2      \* producer goroutines, each making one Add call
MaxBatchSize == 2      \* largest configured batch size
MaxLeaves    == 5      \* longest leaf list given to the tree builder alone

\* ---- program constants ----------------------------------------------------
DigestSize   == 32     \* len(leaf) != 32, sha256.Size
QueueFactor  == 4      \* make(chan *batchItem, batchSize*4)
DefaultMaxWait == 25   \* maxWait = 25 * time.Millisecond

VARIABLES
    batchSize,   \* b.batchSize after NewMerkleBatcher's normalisation
    maxWait,     \* b.maxWait after it, in milliseconds
    inQ,         \* b.in: buffered channel of items (an item is its producer)
    stop,        \* b.stop is closed
    done,        \* b.done is closed
    panicked,    \* the process died of a panic (close of a closed channel)
    loopPc,      \* position of loop(): "select", "ledger", "deliver", "done"
    batch,       \* loop's batch: items in the order they were received
    timerC,      \* loop's timer: "nil", "armed", "fired", "stopped"
    fl,          \* the running flush: its items, tree, Write result, position
    resp,        \* it.resp of each producer's item: a channel of capacity 1
    add,         \* each producer's Add call: pc, leaf, returned values, and
                 \* whether it began after Close had returned
    cls,         \* each closer's Close call: pc, the select branch taken, and
                 \* whether it began after another Close call had returned
    writes,      \* history: every ledger.Write call, in order
    hist,        \* history: items in order of receipt, results sent to each
                 \* item, the select cases taken, the batch at the stop case
    mk           \* the tree functions applied on their own (MerkleSpec)

vars == <<batchSize, maxWait, inQ, stop, done, panicked, loopPc, batch, timerC, fl,
          resp, add, cls, writes, hist, mk>>

batcherVars == <<batchSize, maxWait, inQ, stop, done, panicked, loopPc, batch, timerC,
                 fl, resp, add, cls, writes, hist>>

\* ---- errors and strings ---------------------------------------------------
NilErr == [isNil |-> TRUE, msg |-> <<>>]

ErrorsNew(m) == [isNil |-> FALSE, msg |-> m]

\* err.Error() of a non-nil error
ErrorText(e) == e.msg

\* fmt.Errorf(format) with no operands: "%%" prints "%", "%" at the end prints
\* "%!(NOVERB)", "%" before a verb v prints "%!v(MISSING)"; the rest is copied.
RECURSIVE doPrintf(_)
doPrintf(format) ==
    IF format = <<>> THEN <<>>
    ELSE IF Head(format) # "%" THEN <<Head(format)>> \o doPrintf(Tail(format))
    ELSE IF Len(format) = 1 THEN <<"%", "!(NOVERB)">>
    ELSE IF format[2] = "%" THEN <<"%">> \o doPrintf(Tail(Tail(format)))
    ELSE <<"%", "!", format[2], "(MISSING)">> \o doPrintf(Tail(Tail(format)))

Errorf(format) == ErrorsNew(doPrintf(format))

\* ---- byte strings, SHA-256, hex, JSON --------------------------------------
RawBytes(id, w) ==
    IF w = 0 THEN <<>>
    ELSE << [op |-> "raw", w |-> w, id |-> id, kids |-> <<>>] >>

RECURSIVE ByteLen(_)
ByteLen(b) == IF b = <<>> THEN 0 ELSE Head(b).w + ByteLen(Tail(b))

Sum256(buf) == << [op |-> "sha256", w |-> DigestSize, id |-> 0, kids |-> buf] >>

\* A hex string: the bytes its digit pairs spell, its number of digits, and
\* whether some character is no hex digit.
EncodeToString(b) == [digits |-> b, n |-> 2 * ByteLen(b), bad |-> FALSE]

DecodeString(s) ==
    IF s.bad \/ s.n % 2 = 1
    THEN [val |-> <<>>, err |-> ErrorsNew(<<"encoding/hex: invalid input">>)]
    ELSE [val |-> s.digits, err |-> NilErr]

EmptyString == EncodeToString(<<>>)

\* A JSON text holding a proof: well-formed or not, and the steps it spells.
\* A nil slice ("null") and an empty one ("[]") both unmarshal to no steps.
JsonMarshal(proof) == [valid |-> TRUE, steps |-> proof]

JsonUnmarshal(j) ==
    IF j.valid THEN [val |-> j.steps, err |-> NilErr]
    ELSE [val |-> <<>>, err |-> ErrorsNew(<<"json: syntax error">>)]

\* ---- merkle.go -------------------------------------------------------------
\* nextLevel as it would be if the last node of an odd level were hashed alone
\* instead of being paired with itself.
nextLevel_NoDuplicate(curr) ==
    [j \in 1..((Len(curr) + 1) \div 2) |->
        LET left  == curr[2 * j - 1]
            right == IF 2 * j <= Len(curr) THEN curr[2 * j] ELSE <<>>
        IN  Sum256(left \o right)]

\* nextLevel as it would be if a parent were the digest of right || left.
nextLevel_Swapped(curr) ==
    [j \in 1..((Len(curr) + 1) \div 2) |->
        LET left  == curr[2 * j - 1]
            right == IF 2 * j <= Len(curr) THEN curr[2 * j] ELSE left
        IN  Sum256(right \o left)]

\* One pass of the pairing loop: parent j = sha256(left || right), the last
\* node of an odd level paired with itself.
nextLevel(curr) ==
    [j \in 1..((Len(curr) + 1) \div 2) |->
        LET left  == curr[2 * j - 1]
            right == IF 2 * j <= Len(curr) THEN curr[2 * j] ELSE left
        IN  Sum256(left \o right)]

\* levelsFrom as it would be if the pairing pass came before the test for a
\* level of one node.
RECURSIVE levelsFrom_PassFirst(_)
levelsFrom_PassFirst(levels) ==
    LET next == Append(levels, nextLevel(levels[Len(levels)]))
    IN  IF Len(next[Len(next)]) = 1 THEN next
        ELSE levelsFrom_PassFirst(next)

RECURSIVE levelsFrom(_)
levelsFrom(levels) ==
    LET curr == levels[Len(levels)]
    IN  IF Len(curr) = 1 THEN levels
        ELSE levelsFrom(Append(levels, nextLevel(curr)))

\* buildMerkleLevels as it would be if it returned the leaves copied so far
\* along with the error for an empty leaf.
buildMerkleLevels_Partial(leaves) ==
    IF Len(leaves) = 0
    THEN [levels |-> <<>>, err |-> ErrorsNew(<<"no leaves">>)]
    ELSE IF \E i \in 1..Len(leaves) : ByteLen(leaves[i]) = 0
    THEN [levels |-> <<SubSeq(leaves, 1,
                          (CHOOSE i \in 1..Len(leaves) :
                              /\ ByteLen(leaves[i]) = 0
                              /\ \A k \in 1..(i - 1) : ByteLen(leaves[k]) # 0) - 1)>>,
          err |-> ErrorsNew(<<"empty leaf">>)]
    ELSE [levels |-> levelsFrom(<<leaves>>), err |-> NilErr]

buildMerkleLevels(leaves) ==
    IF Len(leaves) = 0
    THEN [levels |-> <<>>, err |-> ErrorsNew(<<"no leaves">>)]
    ELSE IF \E i \in 1..Len(leaves) : ByteLen(leaves[i]) = 0
    THEN [levels |-> <<>>, err |-> ErrorsNew(<<"empty leaf">>)]
    ELSE [levels |-> levelsFrom(<<leaves>>), err |-> NilErr]

merkleRootFromLevels(levels) == levels[Len(levels)][1]

\* proofSteps as it would be if a node without a neighbour gave no step.
RECURSIVE proofSteps_SkipDuplicate(_, _, _)
proofSteps_SkipDuplicate(levels, lvl, idx) ==
    IF lvl >= Len(levels) - 1 THEN <<>>
    ELSE LET nodes   == levels[lvl + 1]
             isRight == (idx % 2) = 1
             sib0    == IF isRight THEN idx - 1 ELSE idx + 1
             side    == IF isRight THEN "L" ELSE "R"
         IN  (IF sib0 >= Len(nodes) THEN <<>>
              ELSE <<[Hash |-> EncodeToString(nodes[sib0 + 1]), Side |-> side]>>)
                 \o proofSteps_SkipDuplicate(levels, lvl + 1, idx \div 2)

\* proofSteps as it would be if a node without a neighbour were recorded with
\* side "L".
RECURSIVE proofSteps_ClampLeft(_, _, _)
proofSteps_ClampLeft(levels, lvl, idx) ==
    IF lvl >= Len(levels) - 1 THEN <<>>
    ELSE LET nodes   == levels[lvl + 1]
             isRight == (idx % 2) = 1
             sib0    == IF isRight THEN idx - 1 ELSE idx + 1
             sibIdx  == IF sib0 >= Len(nodes) THEN idx ELSE sib0
             side    == IF isRight \/ sib0 >= Len(nodes) THEN "L" ELSE "R"
         IN  <<[Hash |-> EncodeToString(nodes[sibIdx + 1]), Side |-> side]>>
                 \o proofSteps_ClampLeft(levels, lvl + 1, idx \div 2)

\* The loop of merkleProof from level lvl (0-based) with running index idx.
RECURSIVE proofSteps(_, _, _)
proofSteps(levels, lvl, idx) ==
    IF lvl >= Len(levels) - 1 THEN <<>>
    ELSE LET nodes   == levels[lvl + 1]
             isRight == (idx % 2) = 1
             sib0    == IF isRight THEN idx - 1 ELSE idx + 1
             side    == IF isRight THEN "L" ELSE "R"
             sibIdx  == IF sib0 >= Len(nodes) THEN idx ELSE sib0
         IN  <<[Hash |-> EncodeToString(nodes[sibIdx + 1]), Side |-> side]>>
                 \o proofSteps(levels, lvl + 1, idx \div 2)

merkleProof(levels, index) ==
    IF Len(levels) = 0
    THEN [proof |-> <<>>, err |-> ErrorsNew(<<"no levels">>)]
    ELSE IF index < 0 \/ index >= Len(levels[1])
    THEN [proof |-> <<>>, err |-> ErrorsNew(<<"leaf index out of range">>)]
    ELSE [proof |-> proofSteps(levels, 0, index), err |-> NilErr]

\* applySteps as it would be with the two sides exchanged.
RECURSIVE applySteps_Swapped(_, _)
applySteps_Swapped(curr, proof) ==
    IF proof = <<>> THEN [root |-> curr, err |-> NilErr]
    ELSE LET step == Head(proof)
             sib  == DecodeString(step.Hash)
         IN  IF ~sib.err.isNil
             THEN [root |-> <<>>,
                   err |-> ErrorsNew(<<"invalid proof hash encoding">>)]
             ELSE IF step.Side = "L"
             THEN applySteps_Swapped(Sum256(curr \o sib.val), Tail(proof))
             ELSE IF step.Side = "R"
             THEN applySteps_Swapped(Sum256(sib.val \o curr), Tail(proof))
             ELSE [root |-> <<>>, err |-> ErrorsNew(<<"invalid proof side">>)]

\* applySteps as it would be if every side other than "L" were taken as "R".
RECURSIVE applySteps_UnknownSideRight(_, _)
applySteps_UnknownSideRight(curr, proof) ==
    IF proof = <<>> THEN [root |-> curr, err |-> NilErr]
    ELSE LET step == Head(proof)
             sib  == DecodeString(step.Hash)
         IN  IF ~sib.err.isNil
             THEN [root |-> <<>>,
                   err |-> ErrorsNew(<<"invalid proof hash encoding">>)]
             ELSE IF step.Side = "L"
             THEN applySteps_UnknownSideRight(Sum256(sib.val \o curr), Tail(proof))
             ELSE applySteps_UnknownSideRight(Sum256(curr \o sib.val), Tail(proof))

\* The loop of computeRootFromProof over the remaining steps.
RECURSIVE applySteps(_, _)
applySteps(curr, proof) ==
    IF proof = <<>> THEN [root |-> curr, err |-> NilErr]
    ELSE LET step == Head(proof)
             sib  == DecodeString(step.Hash)
         IN  IF ~sib.err.isNil
             THEN [root |-> <<>>,
                   err |-> ErrorsNew(<<"invalid proof hash encoding">>)]
             ELSE IF step.Side = "L"
             THEN applySteps(Sum256(sib.val \o curr), Tail(proof))
             ELSE IF step.Side = "R"
             THEN applySteps(Sum256(curr \o sib.val), Tail(proof))
             ELSE [root |-> <<>>, err |-> ErrorsNew(<<"invalid proof side">>)]

computeRootFromProof(leaf, proof) ==
    IF ByteLen(leaf) = 0
    THEN [root |-> <<>>, err |-> ErrorsNew(<<"empty leaf">>)]
    ELSE applySteps(leaf, proof)

\* VerifyMerkleProof as it would be if it compared only the lengths of the
\* computed and the expected root.
VerifyMerkleProof_LengthOnly(leafHashHex, proofJSON, expectedRootHex) ==
    LET leaf         == DecodeString(leafHashHex)
        expectedRoot == DecodeString(expectedRootHex)
        proof        == JsonUnmarshal(proofJSON)
        computed     == computeRootFromProof(leaf.val, proof.val)
    IN  IF ~leaf.err.isNil
        THEN [ok |-> FALSE, err |-> ErrorsNew(<<"invalid leaf hash encoding">>)]
        ELSE IF ~expectedRoot.err.isNil
        THEN [ok |-> FALSE, err |-> ErrorsNew(<<"invalid root hash encoding">>)]
        ELSE IF ~proof.err.isNil
        THEN [ok |-> FALSE, err |-> ErrorsNew(<<"invalid proof json">>)]
        ELSE IF ~computed.err.isNil
        THEN [ok |-> FALSE, err |-> computed.err]
        ELSE IF ByteLen(computed.root) # ByteLen(expectedRoot.val)
        THEN [ok |-> FALSE, err |-> NilErr]
        ELSE [ok |-> TRUE, err |-> NilErr]

VerifyMerkleProof(leafHashHex, proofJSON, expectedRootHex) ==
    LET leaf         == DecodeString(leafHashHex)
        expectedRoot == DecodeString(expectedRootHex)
        proof        == JsonUnmarshal(proofJSON)
        computed     == computeRootFromProof(leaf.val, proof.val)
    IN  IF ~leaf.err.isNil
        THEN [ok |-> FALSE, err |-> ErrorsNew(<<"invalid leaf hash encoding">>)]
        ELSE IF ~expectedRoot.err.isNil
        THEN [ok |-> FALSE, err |-> ErrorsNew(<<"invalid root hash encoding">>)]
        ELSE IF ~proof.err.isNil
        THEN [ok |-> FALSE, err |-> ErrorsNew(<<"invalid proof json">>)]
        ELSE IF ~computed.err.isNil
        THEN [ok |-> FALSE, err |-> computed.err]
        ELSE IF ByteLen(computed.root) # ByteLen(expectedRoot.val)
        THEN [ok |-> FALSE, err |-> NilErr]
        ELSE IF computed.root # expectedRoot.val
        THEN [ok |-> FALSE, err |-> NilErr]
        ELSE [ok |-> TRUE, err |-> NilErr]

\* ---- service.go: values ----------------------------------------------------
\* time.Now().UnixNano(): some instant after the epoch.  Only "zero or set"
\* is kept of a timestamp.
Now == 1

Producers == 1..NumProducers

\* Two goroutines call Close, so that calls can follow each other or overlap.
Closers == {"c1", "c2"}

\* The leaves producer p may pass to Add: its own 32-byte digest (distinct
\* producers hold distinct digests) or a 31-byte string.
LeafInputs(p) == {RawBytes(p, DigestSize), RawBytes(p, DigestSize - 1)}

\* The batch sizes NewMerkleBatcher may be given.
BatchSizeInputs == 0..MaxBatchSize

\* The messages of the errors ledger.Write may return: a plain one, the empty
\* one and one that carries a "%".
WriteErrTexts == <<(<<"ledger down">>), <<>>, (<<"quota 100", "%", "d">>)>>

\* What ledger.Write may return for its n-th call: a transaction id of its
\* own, or one of the errors.
WriteReturns(n) ==
    <<[txID |-> <<"0x", n>>, err |-> NilErr]>>
        \o [k \in 1..Len(WriteErrTexts) |->
               [txID |-> <<>>, err |-> ErrorsNew(WriteErrTexts[k])]]

\* MerkleBatchResult{}
ZeroResult ==
    [Root |-> EmptyString, TxID |-> <<>>, Index |-> 0, BatchSize |-> 0,
     Proof |-> <<>>, Err |-> <<>>,
     EnqueueUnixNS |-> 0, FlushStartUnixNS |-> 0, BuildStartUnixNS |-> 0,
     BuildEndUnixNS |-> 0, LedgerStartUnixNS |-> 0, LedgerEndUnixNS |-> 0,
     ResponseUnixNS |-> 0]

NoFlush ==
    [items |-> <<>>, cause |-> "none", levels |-> <<>>, out |-> <<>>, i |-> 0]

NoReturn == [res |-> ZeroResult, err |-> NilErr]

PendingWrite == [txID |-> <<>>, err |-> NilErr, returned |-> FALSE]

\* The flush deadlines NewMerkleBatcher may be given, in milliseconds.
MaxWaitInputs == {-1, 0, DefaultMaxWait}

\* ---- service.go: NewMerkleBatcher -------------------------------------------
\* NormalBatchSize as it would be if the batch size were taken as given.
NormalBatchSize_AsGiven(n) == n

NormalBatchSize(n) == IF n < 1 THEN 1 ELSE n

NormalMaxWait(d) == IF d <= 0 THEN DefaultMaxWait ELSE d

QueueCap == batchSize * QueueFactor

BatcherInit ==
    /\ batchSize \in {NormalBatchSize(n) : n \in BatchSizeInputs}
    /\ maxWait \in {NormalMaxWait(d) : d \in MaxWaitInputs}
    /\ inQ = <<>>
    /\ stop = FALSE
    /\ done = FALSE
    /\ panicked = FALSE
    /\ loopPc = "select"
    /\ batch = <<>>
    /\ timerC = "nil"
    /\ fl = NoFlush
    /\ resp = [p \in Producers |-> <<>>]
    /\ add = [p \in Producers |->
                [pc |-> "idle", leaf |-> <<>>, ret |-> NoReturn,
                 afterClose |-> FALSE]]
    /\ cls = [c \in Closers |-> [pc |-> "idle", path |-> "none", second |-> FALSE]]
    /\ writes = <<>>
    /\ hist = [recv |-> <<>>, sent |-> [p \in Producers |-> <<>>],
               timerTaken |-> FALSE, stopTaken |-> FALSE, stopBatch |-> <<>>]

\* The tree functions on their own: a leaf list, the levels built from it, the
\* proof derived for an index, the (leaf, proof, root) strings handed to
\* VerifyMerkleProof and its answer.
MkStart(leaves) ==
    [pc |-> "start", leaves |-> leaves,
     built |-> [levels |-> <<>>, err |-> NilErr],
     index |-> 0, proof |-> [proof |-> <<>>, err |-> NilErr],
     leafHex |-> EmptyString, proofJSON |-> JsonMarshal(<<>>),
     rootHex |-> EmptyString, tamper |-> "none",
     verdict |-> [ok |-> FALSE, err |-> NilErr]]

MkIdle == [MkStart(<<>>) EXCEPT !.pc = "off"]

Init == BatcherInit /\ mk = MkIdle

\* Some Close call that raised the stop signal has returned.
CloseHasReturned ==
    \E c \in Closers : cls[c].pc = "returned" /\ cls[c].path = "default"

\* ---- service.go: Add --------------------------------------------------------
\* AddCall as it would be without the length check.
AddCall_NoLengthCheck(p, leaf) ==
    /\ ~panicked
    /\ add[p].pc = "idle"
    /\ add' = [add EXCEPT ![p] =
                 [pc |-> "send", leaf |-> leaf, ret |-> NoReturn,
                  afterClose |-> CloseHasReturned]]
    /\ UNCHANGED <<batchSize, maxWait, inQ, stop, done, panicked, loopPc, batch,
                   timerC, fl, resp, cls, writes, hist, mk>>

\* Add up to its select: the length check and the item.
AddCall(p, leaf) ==
    /\ ~panicked
    /\ add[p].pc = "idle"
    /\ add' = [add EXCEPT ![p] =
                 IF ByteLen(leaf) # DigestSize
                 THEN [pc |-> "returned", leaf |-> leaf,
                       ret |-> [res |-> ZeroResult,
                                err |-> ErrorsNew(<<"leaf hash must be 32 bytes (raw sha256)">>)],
                       afterClose |-> CloseHasReturned]
                 ELSE [pc |-> "send", leaf |-> leaf, ret |-> NoReturn,
                       afterClose |-> CloseHasReturned]]
    /\ UNCHANGED <<batchSize, maxWait, inQ, stop, done, panicked, loopPc, batch, timerC,
                   fl, resp, cls, writes, hist, mk>>

\* AddSend as it would be if the send did not wait for room in b.in.
AddSend_Unbounded(p) ==
    /\ ~panicked
    /\ add[p].pc = "send"
    /\ inQ' = Append(inQ, p)
    /\ add' = [add EXCEPT ![p].pc = "wait"]
    /\ UNCHANGED <<batchSize, maxWait, stop, done, panicked, loopPc, batch, timerC, fl,
                   resp, cls, writes, hist, mk>>

\* select: case b.in <- it
AddSend(p) ==
    /\ ~panicked
    /\ add[p].pc = "send"
    /\ Len(inQ) < QueueCap
    /\ inQ' = Append(inQ, p)
    /\ add' = [add EXCEPT ![p].pc = "wait"]
    /\ UNCHANGED <<batchSize, maxWait, stop, done, panicked, loopPc, batch, timerC, fl,
                   resp, cls, writes, hist, mk>>

\* select: case <-b.stop
AddStopped(p) ==
    /\ ~panicked
    /\ add[p].pc = "send"
    /\ stop
    /\ add' = [add EXCEPT ![p].pc = "returned",
                          ![p].ret = [res |-> ZeroResult,
                                      err |-> Errorf(<<"merkle batcher stopped">>)]]
    /\ UNCHANGED <<batchSize, maxWait, inQ, stop, done, panicked, loopPc, batch, timerC,
                   fl, resp, cls, writes, hist, mk>>

\* What Add returns for the result it took from it.resp.
AddResult(res) ==
    IF res.Err # <<>> THEN [res |-> ZeroResult, err |-> Errorf(res.Err)]
    ELSE [res |-> res, err |-> NilErr]

\* res := <-it.resp and the return
AddRecv(p) ==
    /\ ~panicked
    /\ add[p].pc = "wait"
    /\ resp[p] # <<>>
    /\ resp' = [resp EXCEPT ![p] = Tail(resp[p])]
    /\ add' = [add EXCEPT ![p].pc = "returned",
                          ![p].ret = AddResult(Head(resp[p]))]
    /\ UNCHANGED <<batchSize, maxWait, inQ, stop, done, panicked, loopPc, batch, timerC,
                   fl, cls, writes, hist, mk>>

\* ---- service.go: Close ------------------------------------------------------
\* CloseSelect as it would be without the case <-b.stop guard.
CloseSelect_NoGuard(c) ==
    /\ ~panicked
    /\ cls[c].pc = "idle"
    /\ cls' = [cls EXCEPT ![c] =
                 [pc |-> "closing", path |-> "default", second |-> CloseHasReturned]]
    /\ UNCHANGED <<batchSize, maxWait, inQ, stop, done, panicked, loopPc, batch, timerC,
                   fl, resp, add, writes, hist, mk>>

\* select { case <-b.stop: ; default: }
CloseSelect(c) ==
    /\ ~panicked
    /\ cls[c].pc = "idle"
    /\ cls' = [cls EXCEPT ![c] =
                 [pc     |-> IF stop THEN "returned" ELSE "closing",
                  path   |-> IF stop THEN "already" ELSE "default",
                  second |-> CloseHasReturned]]
    /\ UNCHANGED <<batchSize, maxWait, inQ, stop, done, panicked, loopPc, batch, timerC,
                   fl, resp, add, writes, hist, mk>>

\* close(b.stop): closing a closed channel panics.
CloseStop(c) ==
    /\ ~panicked
    /\ cls[c].pc = "closing"
    /\ IF stop
       THEN /\ panicked' = TRUE
            /\ UNCHANGED <<stop, cls>>
       ELSE /\ stop' = TRUE
            /\ cls' = [cls EXCEPT ![c].pc = "waitdone"]
            /\ UNCHANGED panicked
    /\ UNCHANGED <<batchSize, maxWait, inQ, done, loopPc, batch, timerC, fl, resp, add,
                   writes, hist, mk>>

\* <-b.done
CloseWait(c) ==
    /\ ~panicked
    /\ cls[c].pc = "waitdone"
    /\ done
    /\ cls' = [cls EXCEPT ![c].pc = "returned"]
    /\ UNCHANGED <<batchSize, maxWait, inQ, stop, done, panicked, loopPc, batch, timerC,
                   fl, resp, add, writes, hist, mk>>

\* ---- service.go: loop and its flush closure ----------------------------------
LeavesOf(items) == [k \in 1..Len(items) |-> add[items[k]].leaf]

\* BatchMeta as it would be if the record counted the configured batch size
\* instead of the leaves of the batch.
BatchMeta_ConfiguredSize(rootHex, n) ==
    [type |-> "merkle_batch", root |-> rootHex, leaves |-> batchSize,
     leaf_algo |-> "sha256(file_bytes)", node_algo |-> "sha256(l||r)"]

\* meta: the batch-commit record (created_at, a wall-clock time, left out)
BatchMeta(rootHex, n) ==
    [type |-> "merkle_batch", root |-> rootHex, leaves |-> n,
     leaf_algo |-> "sha256(file_bytes)", node_algo |-> "sha256(l||r)"]

\* The result flush sends when buildMerkleLevels failed.
BuildErrResult(err) ==
    [ZeroResult EXCEPT !.Err = ErrorText(err), !.EnqueueUnixNS = Now]

\* The result flush sends when ledger.Write failed.
LedgerErrResult(err) ==
    [ZeroResult EXCEPT !.Err = ErrorText(err), !.EnqueueUnixNS = Now,
                       !.FlushStartUnixNS = Now, !.BuildStartUnixNS = Now,
                       !.BuildEndUnixNS = Now, !.LedgerStartUnixNS = Now,
                       !.LedgerEndUnixNS = Now, !.ResponseUnixNS = Now]

\* SuccessResult as it would be if every item were given index 0.
SuccessResult_IndexZero(levels, rootHex, txID, i, n) ==
    [Root |-> rootHex, TxID |-> txID, Index |-> 0, BatchSize |-> n,
     Proof |-> merkleProof(levels, 0).proof, Err |-> <<>>,
     EnqueueUnixNS |-> Now, FlushStartUnixNS |-> Now, BuildStartUnixNS |-> Now,
     BuildEndUnixNS |-> Now, LedgerStartUnixNS |-> Now, LedgerEndUnixNS |-> Now,
     ResponseUnixNS |-> Now]

\* The result flush sends to item i (0-based) of a committed batch.
SuccessResult(levels, rootHex, txID, i, n) ==
    [Root |-> rootHex, TxID |-> txID, Index |-> i, BatchSize |-> n,
     Proof |-> merkleProof(levels, i).proof, Err |-> <<>>,
     EnqueueUnixNS |-> Now, FlushStartUnixNS |-> Now, BuildStartUnixNS |-> Now,
     BuildEndUnixNS |-> Now, LedgerStartUnixNS |-> Now, LedgerEndUnixNS |-> Now,
     ResponseUnixNS |-> Now]

\* AfterFlush as it would be if the loop kept its batch and its timer after a
\* flush.
AfterFlush_KeepBatch(cause) ==
    IF cause = "stop"
    THEN /\ loopPc' = "done"
         /\ done' = TRUE
         /\ batch' = <<>>
         /\ timerC' = "nil"
    ELSE /\ loopPc' = "select"
         /\ done' = done
         /\ batch' = batch
         /\ timerC' = timerC

\* AfterFlush as it would be if the loop kept its timer after a flush.
AfterFlush_KeepTimer(cause) ==
    IF cause = "stop"
    THEN /\ loopPc' = "done"
         /\ done' = TRUE
         /\ batch' = <<>>
         /\ timerC' = "nil"
    ELSE /\ loopPc' = "select"
         /\ done' = done
         /\ batch' = <<>>
         /\ timerC' = timerC

\* The loop after flush(items) has returned: back to the select with no batch
\* and no timer, or, in the stop case, return (the locals batch and timer end
\* with the goroutine) and the deferred close(b.done).
AfterFlush(cause) ==
    IF cause = "stop"
    THEN /\ loopPc' = "done"
         /\ done' = TRUE
         /\ batch' = <<>>
         /\ timerC' = "nil"
    ELSE /\ loopPc' = "select"
         /\ done' = done
         /\ batch' = <<>>
         /\ timerC' = "nil"

\* StartFlush as it would be if flush issued the Write without waiting for it
\* and the loop went on at once.
StartFlush_NoWait(items, cause, tmr) ==
    LET built   == buildMerkleLevels(LeavesOf(items))
        rootHex == EncodeToString(merkleRootFromLevels(built.levels))
    IN  IF Len(items) = 0
        THEN /\ AfterFlush(cause)
             /\ UNCHANGED <<fl, writes>>
        ELSE /\ AfterFlush(cause)
             /\ fl' = fl
             /\ writes' = Append(writes,
                   [digest |-> rootHex,
                    meta |-> BatchMeta(rootHex, Len(items)),
                    items |-> items, cause |-> cause,
                    ret |-> PendingWrite])

\* flush(items) from its start to the call of b.ledger.Write; tmr is the timer
\* as the select's case left it.
StartFlush(items, cause, tmr) ==
    LET built   == buildMerkleLevels(LeavesOf(items))
        rootHex == EncodeToString(merkleRootFromLevels(built.levels))
    IN  IF Len(items) = 0
        THEN /\ AfterFlush(cause)
             /\ UNCHANGED <<fl, writes>>
        ELSE /\ batch' = items
             /\ timerC' = tmr
             /\ done' = done
             /\ IF ~built.err.isNil
                THEN /\ loopPc' = "deliver"
                     /\ fl' = [items |-> items, cause |-> cause, levels |-> <<>>,
                               out |-> [k \in 1..Len(items) |-> BuildErrResult(built.err)],
                               i |-> 1]
                     /\ UNCHANGED writes
                ELSE /\ loopPc' = "ledger"
                     /\ fl' = [items |-> items, cause |-> cause,
                               levels |-> built.levels, out |-> <<>>, i |-> 1]
                     /\ writes' = Append(writes,
                           [digest |-> rootHex,
                            meta |-> BatchMeta(rootHex, Len(items)),
                            items |-> items, cause |-> cause,
                            ret |-> PendingWrite])

\* timer.Stop() on a timer that may be nil
StopTimer(tmr) == IF tmr = "nil" THEN "nil" ELSE "stopped"

\* LoopRecv as it would be if a received leaf were put at the front of the
\* batch.
LoopRecv_Prepend ==
    /\ ~panicked
    /\ loopPc = "select"
    /\ inQ # <<>>
    /\ LET it     == Head(inQ)
           batch1 == <<it>> \o batch
           timer1 == IF Len(batch1) = 1 THEN "armed" ELSE timerC
       IN  /\ inQ' = Tail(inQ)
           /\ hist' = [hist EXCEPT !.recv = Append(@, it)]
           /\ IF Len(batch1) >= batchSize
              THEN StartFlush(batch1, "size", StopTimer(timer1))
              ELSE /\ batch' = batch1
                   /\ timerC' = timer1
                   /\ UNCHANGED <<loopPc, done, fl, writes>>
    /\ UNCHANGED <<batchSize, maxWait, stop, panicked, resp, add, cls, mk>>

\* LoopRecv as it would be if the first leaf of a batch armed no timer.
LoopRecv_NoTimer ==
    /\ ~panicked
    /\ loopPc = "select"
    /\ inQ # <<>>
    /\ LET it     == Head(inQ)
           batch1 == Append(batch, it)
           timer1 == timerC
       IN  /\ inQ' = Tail(inQ)
           /\ hist' = [hist EXCEPT !.recv = Append(@, it)]
           /\ IF Len(batch1) >= batchSize
              THEN StartFlush(batch1, "size", StopTimer(timer1))
              ELSE /\ batch' = batch1
                   /\ timerC' = timer1
                   /\ UNCHANGED <<loopPc, done, fl, writes>>
    /\ UNCHANGED <<batchSize, maxWait, stop, panicked, resp, add, cls, mk>>

\* LoopRecv as it would be if the size test were len(batch) > b.batchSize.
LoopRecv_OffByOne ==
    /\ ~panicked
    /\ loopPc = "select"
    /\ inQ # <<>>
    /\ LET it     == Head(inQ)
           batch1 == Append(batch, it)
           timer1 == IF Len(batch1) = 1 THEN "armed" ELSE timerC
       IN  /\ inQ' = Tail(inQ)
           /\ hist' = [hist EXCEPT !.recv = Append(@, it)]
           /\ IF Len(batch1) > batchSize
              THEN StartFlush(batch1, "size", StopTimer(timer1))
              ELSE /\ batch' = batch1
                   /\ timerC' = timer1
                   /\ UNCHANGED <<loopPc, done, fl, writes>>
    /\ UNCHANGED <<batchSize, maxWait, stop, panicked, resp, add, cls, mk>>

\* case it := <-b.in
LoopRecv ==
    /\ ~panicked
    /\ loopPc = "select"
    /\ inQ # <<>>
    /\ LET it     == Head(inQ)
           batch1 == Append(batch, it)
           timer1 == IF Len(batch1) = 1 THEN "armed" ELSE timerC
       IN  /\ inQ' = Tail(inQ)
           /\ hist' = [hist EXCEPT !.recv = Append(@, it)]
           /\ IF Len(batch1) >= batchSize
              THEN StartFlush(batch1, "size", StopTimer(timer1))
              ELSE /\ batch' = batch1
                   /\ timerC' = timer1
                   /\ UNCHANGED <<loopPc, done, fl, writes>>
    /\ UNCHANGED <<batchSize, maxWait, stop, panicked, resp, add, cls, mk>>

\* TimerFire as it would be if the tick of a stopped or dropped timer could
\* reach the channel the loop selects on.
TimerFire_Stale ==
    /\ ~panicked
    /\ timerC \in {"armed", "stopped", "nil"}
    /\ loopPc # "done"
    /\ timerC' = "fired"
    /\ UNCHANGED <<batchSize, maxWait, inQ, stop, done, panicked, loopPc, batch,
                   fl, resp, add, cls, writes, hist, mk>>

\* The runtime sends on timer.C when maxWait has passed.
TimerFire ==
    /\ ~panicked
    /\ timerC = "armed"
    /\ timerC' = "fired"
    /\ UNCHANGED <<batchSize, maxWait, inQ, stop, done, panicked, loopPc, batch, fl,
                   resp, add, cls, writes, hist, mk>>

\* case <-timerC
LoopTimer ==
    /\ ~panicked
    /\ loopPc = "select"
    /\ timerC = "fired"
    /\ hist' = [hist EXCEPT !.timerTaken = TRUE]
    /\ StartFlush(batch, "timer", timerC)
    /\ UNCHANGED <<batchSize, maxWait, inQ, stop, panicked, resp, add, cls, mk>>

\* LoopStop as it would be if the stop case returned without flushing.
LoopStop_NoFlush ==
    /\ ~panicked
    /\ loopPc = "select"
    /\ stop
    /\ hist' = [hist EXCEPT !.stopTaken = TRUE, !.stopBatch = batch]
    /\ loopPc' = "done"
    /\ done' = TRUE
    /\ batch' = <<>>
    /\ timerC' = "nil"
    /\ UNCHANGED <<batchSize, maxWait, inQ, stop, panicked, fl, resp, add, cls,
                   writes, mk>>

\* case <-b.stop
LoopStop ==
    /\ ~panicked
    /\ loopPc = "select"
    /\ stop
    /\ hist' = [hist EXCEPT !.stopTaken = TRUE, !.stopBatch = batch]
    /\ StartFlush(batch, "stop", StopTimer(timerC))
    /\ UNCHANGED <<batchSize, maxWait, inQ, stop, panicked, resp, add, cls, mk>>

\* FlushResults as it would be if a flush started by the stop case sent its
\* outcomes without the batch's size.
FlushResults_StopNoSize(f, rootHex, ret) ==
    [k \in 1..Len(f.items) |->
        IF ~ret.err.isNil THEN LedgerErrResult(ret.err)
        ELSE IF f.cause = "stop"
        THEN [SuccessResult(f.levels, rootHex, ret.txID, k - 1, Len(f.items))
                 EXCEPT !.BatchSize = 0]
        ELSE SuccessResult(f.levels, rootHex, ret.txID, k - 1, Len(f.items))]

\* The results flush sends once Write has returned ret.
FlushResults(f, rootHex, ret) ==
    [k \in 1..Len(f.items) |->
        IF ~ret.err.isNil THEN LedgerErrResult(ret.err)
        ELSE SuccessResult(f.levels, rootHex, ret.txID, k - 1, Len(f.items))]

\* LedgerReturn as it would be if a failed Write were issued once more.
LedgerReturn_Retry ==
    /\ ~panicked
    /\ loopPc = "ledger"
    /\ \E k \in 1..Len(WriteReturns(Len(writes))) :
        LET ret  == WriteReturns(Len(writes))[k]
            last == writes[Len(writes)]
            seen == [writes EXCEPT ![Len(writes)].ret =
                        [txID |-> ret.txID, err |-> ret.err, returned |-> TRUE]]
        IN  IF ~ret.err.isNil /\ Len(writes) < 2
            THEN /\ writes' = Append(seen, [last EXCEPT !.ret = PendingWrite])
                 /\ UNCHANGED <<fl, loopPc>>
            ELSE /\ writes' = seen
                 /\ fl' = [fl EXCEPT !.out = FlushResults(fl, last.digest, ret)]
                 /\ loopPc' = "deliver"
    /\ UNCHANGED <<batchSize, maxWait, inQ, stop, done, panicked, batch, timerC,
                   resp, add, cls, hist, mk>>

\* LedgerReturn as it would be if the loop took a leaf waiting in b.in into
\* the batch it is flushing.
LedgerReturn_TakesQueued ==
    /\ ~panicked
    /\ loopPc = "ledger"
    /\ \E k \in 1..Len(WriteReturns(Len(writes))) :
        LET ret    == WriteReturns(Len(writes))[k]
            items1 == IF inQ = <<>> THEN fl.items ELSE Append(fl.items, Head(inQ))
        IN
          /\ writes' = [writes EXCEPT ![Len(writes)].ret =
                            [txID |-> ret.txID, err |-> ret.err, returned |-> TRUE]]
          /\ fl' = [fl EXCEPT !.items = items1,
                              !.out = FlushResults([fl EXCEPT !.items = items1],
                                                   writes[Len(writes)].digest, ret)]
          /\ batch' = items1
    /\ inQ' = IF inQ = <<>> THEN inQ ELSE Tail(inQ)
    /\ hist' = IF inQ = <<>> THEN hist
               ELSE [hist EXCEPT !.recv = Append(@, Head(inQ))]
    /\ loopPc' = "deliver"
    /\ UNCHANGED <<batchSize, maxWait, stop, done, panicked, timerC, resp,
                   add, cls, mk>>

\* b.ledger.Write returns.
LedgerReturn ==
    /\ ~panicked
    /\ loopPc = "ledger"
    /\ \E k \in 1..Len(WriteReturns(Len(writes))) :
        LET ret == WriteReturns(Len(writes))[k]
        IN
          /\ writes' = [writes EXCEPT ![Len(writes)].ret =
                            [txID |-> ret.txID, err |-> ret.err, returned |-> TRUE]]
          /\ fl' = [fl EXCEPT !.out = FlushResults(fl, writes[Len(writes)].digest, ret)]
    /\ loopPc' = "deliver"
    /\ UNCHANGED <<batchSize, maxWait, inQ, stop, done, panicked, batch, timerC, resp,
                   add, cls, hist, mk>>

\* FlushDeliver as it would be if the last leaf of a batch of several were
\* sent no outcome.
FlushDeliver_DropLast ==
    /\ ~panicked
    /\ loopPc = "deliver"
    /\ LET p == fl.items[fl.i]
       IN  IF fl.i = Len(fl.items) /\ fl.i > 1
           THEN UNCHANGED <<resp, hist>>
           ELSE /\ Len(resp[p]) < 1
                /\ resp' = [resp EXCEPT ![p] = Append(@, fl.out[fl.i])]
                /\ hist' = [hist EXCEPT !.sent[p] = Append(@, fl.out[fl.i])]
    /\ IF fl.i < Len(fl.items)
       THEN /\ fl' = [fl EXCEPT !.i = @ + 1]
            /\ UNCHANGED <<loopPc, done, batch, timerC>>
       ELSE /\ fl' = NoFlush
            /\ AfterFlush(fl.cause)
    /\ UNCHANGED <<batchSize, maxWait, inQ, stop, panicked, add, cls, writes, mk>>

\* it.resp <- MerkleBatchResult{...} for the next item; after the last one
\* flush returns.
FlushDeliver ==
    /\ ~panicked
    /\ loopPc = "deliver"
    /\ LET p == fl.items[fl.i]
       IN  /\ Len(resp[p]) < 1
           /\ resp' = [resp EXCEPT ![p] = Append(@, fl.out[fl.i])]
           /\ hist' = [hist EXCEPT !.sent[p] = Append(@, fl.out[fl.i])]
    /\ IF fl.i < Len(fl.items)
       THEN /\ fl' = [fl EXCEPT !.i = @ + 1]
            /\ UNCHANGED <<loopPc, done, batch, timerC>>
       ELSE /\ fl' = NoFlush
            /\ AfterFlush(fl.cause)
    /\ UNCHANGED <<batchSize, maxWait, inQ, stop, panicked, add, cls, writes, mk>>

\* ---- the batcher ------------------------------------------------------------
Next ==
    \/ \E p \in Producers : \E leaf \in LeafInputs(p) : AddCall(p, leaf)
    \/ \E p \in Producers : AddSend(p)
    \/ \E p \in Producers : AddStopped(p)
    \/ \E p \in Producers : AddRecv(p)
    \/ \E c \in Closers : CloseSelect(c)
    \/ \E c \in Closers : CloseStop(c)
    \/ \E c \in Closers : CloseWait(c)
    \/ LoopRecv
    \/ TimerFire
    \/ LoopTimer
    \/ LoopStop
    \/ LedgerReturn
    \/ FlushDeliver

Spec == Init /\ [][Next]_vars

\* Scheduling.  Every goroutine that can take a step takes one: Add's select and
\* its receive, Close after its select, the loop's select (some ready case is
\* taken, no case in particular) and its flush.  The runtime delivers the
\* timer's tick once maxWait has passed, and ledger.Write returns.  Nothing
\* makes a caller begin an Add or a Close call.
Fairness ==
    /\ \A p \in Producers : WF_vars(AddSend(p) \/ AddStopped(p))
    /\ \A p \in Producers : WF_vars(AddRecv(p))
    /\ \A c \in Closers : WF_vars(CloseStop(c))
    /\ \A c \in Closers : WF_vars(CloseWait(c))
    /\ WF_vars(LoopRecv \/ LoopTimer \/ LoopStop)
    /\ WF_vars(TimerFire)
    /\ WF_vars(LedgerReturn)
    /\ WF_vars(FlushDeliver)

FairSpec == Init /\ [][Next]_vars /\ Fairness

\* The batcher while nobody calls Close: the stop signal is never raised, so
\* Add's and the loop's stop cases are never ready.
NoCloseNext ==
    \/ \E p \in Producers : \E leaf \in LeafInputs(p) : AddCall(p, leaf)
    \/ \E p \in Producers : AddSend(p)
    \/ \E p \in Producers : AddRecv(p)
    \/ LoopRecv
    \/ TimerFire
    \/ LoopTimer
    \/ LedgerReturn
    \/ FlushDeliver

NoCloseSpec == Init /\ [][NoCloseNext]_vars /\ Fairness

\* ---- the batcher with its hand-off queue filled ---------------------------------
\* Callers enough to fill the hand-off queue of a batcher of batch size 1
\* (make(chan *batchItem, 1*4)) and to leave one of them blocked on it.
QueueProducers == 1..(QueueFactor + 1)

\* NewMerkleBatcher(ledger, 1, d) and its callers to be.
QueueInit ==
    /\ batchSize = NormalBatchSize(1)
    /\ maxWait \in {NormalMaxWait(d) : d \in MaxWaitInputs}
    /\ inQ = <<>>
    /\ stop = FALSE
    /\ done = FALSE
    /\ panicked = FALSE
    /\ loopPc = "select"
    /\ batch = <<>>
    /\ timerC = "nil"
    /\ fl = NoFlush
    /\ resp = [p \in QueueProducers |-> <<>>]
    /\ add = [p \in QueueProducers |->
                [pc |-> "idle", leaf |-> <<>>, ret |-> NoReturn,
                 afterClose |-> FALSE]]
    /\ cls = [c \in Closers |-> [pc |-> "idle", path |-> "none", second |-> FALSE]]
    /\ writes = <<>>
    /\ hist = [recv |-> <<>>, sent |-> [p \in QueueProducers |-> <<>>],
               timerTaken |-> FALSE, stopTaken |-> FALSE, stopBatch |-> <<>>]
    /\ mk = MkIdle

\* b.ledger.Write returns, the ledger being one that commits every batch.
LedgerCommits ==
    /\ LedgerReturn
    /\ writes'[Len(writes)].ret.err.isNil

\* The callers are alike but for their leaves, so they are numbered in the
\* order in which they call Add.  One goroutine calls Close, and every Write
\* returns a transaction id.  With batch size 1 every received leaf is flushed
\* at once and the timer never runs.
QueueNext ==
    \/ \E p \in QueueProducers :
           /\ \A q \in QueueProducers : q < p => add[q].pc # "idle"
           /\ AddCall(p, RawBytes(p, DigestSize))
    \/ \E p \in QueueProducers : AddSend(p)
    \/ \E p \in QueueProducers : AddStopped(p)
    \/ \E p \in QueueProducers : AddRecv(p)
    \/ CloseSelect("c1")
    \/ CloseStop("c1")
    \/ CloseWait("c1")
    \/ LoopRecv
    \/ LoopStop
    \/ LedgerCommits
    \/ FlushDeliver

QueueFairness ==
    /\ \A p \in QueueProducers : WF_vars(AddSend(p) \/ AddStopped(p))
    /\ \A p \in QueueProducers : WF_vars(AddRecv(p))
    /\ WF_vars(CloseStop("c1"))
    /\ WF_vars(CloseWait("c1"))
    /\ WF_vars(LoopRecv \/ LoopStop)
    /\ WF_vars(LedgerCommits)
    /\ WF_vars(FlushDeliver)

QueueSpec == QueueInit /\ [][QueueNext]_vars /\ QueueFairness

\* ---- the tree functions on their own -----------------------------------------
\* Leaves given to the tree builder: two 32-byte digests and the empty string.
MkLeafPool == {RawBytes(1, DigestSize), RawBytes(2, DigestSize), RawBytes(0, 0)}

MkLeafLists == UNION {[1..n -> MkLeafPool] : n \in 0..MaxLeaves}

MerkleInit ==
    /\ BatcherInit
    /\ batchSize = 1
    /\ mk \in {MkStart(leaves) : leaves \in MkLeafLists}

MkBuild ==
    /\ mk.pc = "start"
    /\ mk' = [mk EXCEPT !.pc = "built", !.built = buildMerkleLevels(mk.leaves)]
    /\ UNCHANGED batcherVars

\* merkleProof for any index, in range or not; in range, the caller's triple
\* is the hex of the leaf, the JSON of the proof and the hex of the root.
MkProve(index) ==
    /\ mk.pc = "built"
    /\ mk.built.err.isNil
    /\ LET pr == merkleProof(mk.built.levels, index)
       IN  mk' = IF pr.err.isNil
                 THEN [mk EXCEPT !.pc = "proved", !.index = index, !.proof = pr,
                          !.leafHex = EncodeToString(mk.leaves[index + 1]),
                          !.proofJSON = JsonMarshal(pr.proof),
                          !.rootHex = EncodeToString(
                                          merkleRootFromLevels(mk.built.levels))]
                 ELSE [mk EXCEPT !.pc = "noproof", !.index = index, !.proof = pr]
    /\ UNCHANGED batcherVars

MkVerify ==
    /\ mk.pc = "proved"
    /\ mk' = [mk EXCEPT !.pc = "verified",
                        !.verdict = VerifyMerkleProof(mk.leafHex, mk.proofJSON,
                                                      mk.rootHex)]
    /\ UNCHANGED batcherVars

\* Byte strings a caller may put in place of a field of the triple: 32-byte
\* values (two that are leaves of the pool, one that is not, one digest) and
\* values one byte short and one byte long.
TamperBytes ==
    {RawBytes(1, DigestSize), RawBytes(2, DigestSize), RawBytes(3, DigestSize),
     Sum256(RawBytes(1, DigestSize) \o RawBytes(1, DigestSize))}

WrongLenBytes == {RawBytes(1, DigestSize - 1), RawBytes(1, DigestSize + 1)}

\* Strings that are no hex encoding: one with a character that is no hex
\* digit, one with an odd number of digits.
BadHex == [digits |-> <<>>, n |-> 2 * DigestSize, bad |-> TRUE]

OddHex == [digits |-> <<>>, n |-> 2 * DigestSize - 1, bad |-> FALSE]

HexInputs ==
    {EncodeToString(v) : v \in TamperBytes \cup WrongLenBytes}
        \cup {BadHex, OddHex}

\* Side markers a proof step may be given: the two the code knows, the empty
\* one (a step without "side") and another string.
SideInputs == {"L", "R", "", "X"}

\* The caller passes another leaf hash string than the one proved.
MkTamperLeaf(h) ==
    /\ mk.pc = "proved"
    /\ mk.tamper = "none"
    /\ h # mk.leafHex
    /\ mk' = [mk EXCEPT !.tamper = "leaf", !.leafHex = h]
    /\ UNCHANGED batcherVars

\* The caller passes another root string than the tree's.
MkTamperRoot(h) ==
    /\ mk.pc = "proved"
    /\ mk.tamper = "none"
    /\ h # mk.rootHex
    /\ mk' = [mk EXCEPT !.tamper = "root", !.rootHex = h]
    /\ UNCHANGED batcherVars

\* The caller passes the proof with step k given another hash string, another
\* side marker or both.
MkTamperStep(k, h, side) ==
    /\ mk.pc = "proved"
    /\ mk.tamper = "none"
    /\ k \in 1..Len(mk.proof.proof)
    /\ [Hash |-> h, Side |-> side] # mk.proof.proof[k]
    /\ mk' = [mk EXCEPT !.tamper = "step",
                        !.proofJSON = JsonMarshal(
                            [mk.proof.proof EXCEPT ![k] =
                                [Hash |-> h, Side |-> side]])]
    /\ UNCHANGED batcherVars

\* The caller passes a proof string that is no JSON array of steps.
MkTamperJSON ==
    /\ mk.pc = "proved"
    /\ mk.tamper = "none"
    /\ mk' = [mk EXCEPT !.tamper = "json", !.proofJSON = [@ EXCEPT !.valid = FALSE]]
    /\ UNCHANGED batcherVars

MerkleNext ==
    \/ MkBuild
    \/ \E index \in -1..MaxLeaves : MkProve(index)
    \/ \E h \in HexInputs \cup {EncodeToString(<<>>)} : MkTamperLeaf(h)
    \/ \E h \in HexInputs : MkTamperRoot(h)
    \/ \E k \in 1..Len(mk.proof.proof) :
           \E h \in HexInputs \cup {mk.proof.proof[k].Hash} :
               \E side \in SideInputs : MkTamperStep(k, h, side)
    \/ MkTamperJSON
    \/ MkVerify

MerkleSpec == MerkleInit /\ [][MerkleNext]_vars

\* ==== properties ==============================================================
Range(seq) == {seq[k] : k \in 1..Len(seq)}

\* The ledger.Write calls (indices into writes) whose batch holds p's item.
WritesOf(p) == {w \in 1..Len(writes) : p \in Range(writes[w].items)}

StoppedErr == Errorf(<<"merkle batcher stopped">>)

\* C1: all-or-nothing per batch.  When the ledger Write of a flushed batch has
\* returned an error, every Add call of that batch that has returned has
\* returned that same error, and none has returned a success.
C1_AllOrNothing ==
    \A w \in 1..Len(writes) :
        (writes[w].ret.returned /\ ~writes[w].ret.err.isNil) =>
            \A p \in Range(writes[w].items) :
                add[p].pc = "returned" =>
                    /\ ~add[p].ret.err.isNil
                    /\ ErrorText(add[p].ret.err) = ErrorText(writes[w].ret.err)

\* C2: an Add call that begins after a Close call has returned never puts its
\* leaf on the hand-off queue, never waits for an outcome, and a call with a
\* 32-byte leaf returns the "stopped" error.
C2_AddAfterCloseFailsFast ==
    \A p \in Producers :
        add[p].afterClose =>
            /\ p \notin Range(inQ)
            /\ add[p].pc # "wait"
            /\ (add[p].pc = "returned" /\ ByteLen(add[p].leaf) = DigestSize)
                   => add[p].ret.err = StoppedErr

\* C3: a leaf handed to the scheduler always gets its outcome.  The loop is the
\* only sender of outcomes, so once it has returned no Add call may be left
\* waiting on an empty result slot.
C3_HandedLeafGetsOutcome ==
    loopPc = "done" =>
        \A p \in Producers : add[p].pc = "wait" => resp[p] # <<>>

\* C4: every outcome Add returns with a nil error verifies against its own leaf,
\* carries the digest passed to the ledger Write of its batch as Root and the
\* value that Write returned as TxID.
C4_SuccessVerifies ==
    \A p \in Producers :
        (add[p].pc = "returned" /\ add[p].ret.err.isNil) =>
            /\ VerifyMerkleProof(EncodeToString(add[p].leaf),
                                 JsonMarshal(add[p].ret.res.Proof),
                                 add[p].ret.res.Root)
                   = [ok |-> TRUE, err |-> NilErr]
            /\ \E w \in WritesOf(p) :
                   /\ add[p].ret.res.Root = writes[w].digest
                   /\ writes[w].ret.returned
                   /\ writes[w].ret.err.isNil
                   /\ add[p].ret.res.TxID = writes[w].ret.txID

\* C5: proof round trip.  For every list of 32-byte leaves and every index in
\* range, the proof merkleProof derives from the levels of buildMerkleLevels
\* recomputes the tree's root from the leaf, and VerifyMerkleProof answers
\* (true, nil) on the hex and JSON forms of the triple.
C5_ProofRoundTrip ==
    (/\ mk.pc \in {"proved", "verified"}
     /\ mk.tamper = "none"
     /\ \A k \in 1..Len(mk.leaves) : ByteLen(mk.leaves[k]) = DigestSize)
        => /\ computeRootFromProof(mk.leaves[mk.index + 1], mk.proof.proof)
                 = [root |-> merkleRootFromLevels(mk.built.levels), err |-> NilErr]
           /\ mk.pc = "verified" => mk.verdict = [ok |-> TRUE, err |-> NilErr]

\* C5 witness: the last leaf of a three-leaf list (the node paired with itself)
\* has been verified, and so has the only leaf of a one-leaf list.
C5_Witness ==
    /\ mk.pc = "verified"
    /\ mk.tamper = "none"
    /\ Len(mk.leaves) = 3
    /\ mk.index = 2
    /\ \A k \in 1..3 : ByteLen(mk.leaves[k]) = DigestSize
    /\ mk.leaves[1] # mk.leaves[2]
    /\ Len(mk.proof.proof) = 2
    /\ mk.verdict.ok

\* The results the flush of writes[w] has sent so far, by producer.
SentOf(w) == {p \in Range(writes[w].items) : hist.sent[p] # <<>>}

FirstSent(p) == hist.sent[p][1]

\* The position (1-based) of p among the items of writes[w].
PosIn(w, p) == CHOOSE k \in 1..Len(writes[w].items) : writes[w].items[k] = p

\* The outcomes of the flush of writes[w] carry one Root, one TxID and the
\* batch's length as BatchSize, and item k carries Index k - 1.
UniformOutcomes(w) ==
    LET n == Len(writes[w].items)
    IN  /\ \A p \in SentOf(w) :
               /\ FirstSent(p).Root = writes[w].digest
               /\ FirstSent(p).TxID = writes[w].ret.txID
               /\ FirstSent(p).BatchSize = n
               /\ FirstSent(p).Index \in 0..(n - 1)
               /\ FirstSent(p).Err = <<>>
        /\ \A p, q \in SentOf(w) :
               p # q => FirstSent(p).Index # FirstSent(q).Index
        /\ SentOf(w) = Range(writes[w].items)
               => {FirstSent(p).Index : p \in SentOf(w)} = 0..(n - 1)

\* C6 as stated: all outcomes produced by one flush carry the same Root, TxID
\* and BatchSize (the number of leaves of the batch) and pairwise distinct
\* Index values that are exactly 0..BatchSize-1.
C6_Original ==
    \A w \in 1..Len(writes) : writes[w].ret.returned => UniformOutcomes(w)

\* C6 amended: the same, for every flush whose ledger Write returned no error.
C6_UniformSuccessOutcomes ==
    \A w \in 1..Len(writes) :
        (writes[w].ret.returned /\ writes[w].ret.err.isNil) => UniformOutcomes(w)

\* C6 witness: a committed batch of two leaves whose two outcomes are sent.
C6_Witness ==
    \E w \in 1..Len(writes) :
        /\ writes[w].ret.returned
        /\ writes[w].ret.err.isNil
        /\ Len(writes[w].items) = 2
        /\ SentOf(w) = Range(writes[w].items)

\* C7: when a Close call that raised the stop signal has returned, the loop has
\* returned, the batch open at the stop case has been flushed with a ledger
\* Write of its own (a single leaf included), and every leaf of that batch has
\* had its outcome sent to its result slot.
C7_CloseReturnsAfterFinalFlush ==
    CloseHasReturned =>
        /\ loopPc = "done"
        /\ done
        /\ hist.stopTaken
        /\ hist.stopBatch # <<>> =>
               \E w \in 1..Len(writes) :
                   /\ writes[w].items = hist.stopBatch
                   /\ writes[w].cause = "stop"
                   /\ writes[w].ret.returned
        /\ \A p \in Range(hist.stopBatch) : Len(hist.sent[p]) = 1

\* C7 witness: Close has returned after a final flush of a single leaf in a
\* batcher configured for two.
C7_Witness ==
    /\ CloseHasReturned
    /\ batchSize = 2
    /\ Len(hist.stopBatch) = 1
    /\ Len(writes) = 1

\* C8: a Close call that begins after the Close call that raised the stop signal
\* has returned returns in its first step, and that step neither panics nor
\* touches the channels, the loop, the ledger history or any result slot.
C8_SecondCloseIsNoOp ==
    [][\A c \in Closers :
          (cls[c].pc = "idle" /\ cls'[c].pc # "idle" /\ CloseHasReturned) =>
              /\ cls'[c].pc = "returned"
              /\ UNCHANGED <<stop, done, panicked, loopPc, batch, timerC, fl,
                             inQ, resp, writes, hist>>]_vars

\* C8 witness: a Close call that began after the first one returned has itself
\* returned, the first one having flushed a batch.
C8_Witness ==
    /\ \E c \in Closers : cls[c].second /\ cls[c].pc = "returned"
    /\ Len(writes) = 1
    /\ ~panicked

TimingSet(res) ==
    /\ res.EnqueueUnixNS # 0
    /\ res.FlushStartUnixNS # 0
    /\ res.BuildStartUnixNS # 0
    /\ res.BuildEndUnixNS # 0
    /\ res.LedgerStartUnixNS # 0
    /\ res.LedgerEndUnixNS # 0
    /\ res.ResponseUnixNS # 0

\* C9: Add returns an error only for a malformed leaf or a closed scheduler;
\* when the ledger Write of its batch failed, Add returns an outcome with the
\* failure field set and the timing fields populated.
C9_LedgerFailureInsideOutcome ==
    \A p \in Producers :
        add[p].pc = "returned" =>
            /\ ~add[p].ret.err.isNil =>
                   \/ ByteLen(add[p].leaf) # DigestSize
                   \/ add[p].ret.err = StoppedErr
            /\ \A w \in WritesOf(p) :
                   (writes[w].ret.returned /\ ~writes[w].ret.err.isNil) =>
                       /\ add[p].ret.res.Err # <<>>
                       /\ TimingSet(add[p].ret.res)

\* The scenario of C10: exactly batchSize leaves have been received by the loop
\* and the timer case has never been taken.
SizeScenario == Len(hist.recv) = batchSize /\ ~hist.timerTaken

\* In the scenario the Write was issued by the receipt of the last leaf: there
\* is exactly one Write, of the received leaves in order, caused by the size.
OneSizeFlush ==
    /\ Len(writes) = 1
    /\ writes[1].items = hist.recv
    /\ writes[1].cause = "size"
    /\ writes[1].meta.leaves = batchSize

\* A returned call of the scenario holds an outcome with the batch's root,
\* BatchSize = batchSize and its position as Index.
SizeOutcome(p) ==
    /\ add[p].ret.err.isNil
    /\ add[p].ret.res.Root = writes[1].digest
    /\ add[p].ret.res.BatchSize = batchSize
    /\ add[p].ret.res.Index = PosIn(1, p) - 1

\* C10 as stated: in the scenario one Write is issued as soon as the last leaf
\* is admitted and the calls return outcomes sharing one root, with BatchSize =
\* batchSize and indices 0..batchSize-1.
C10_Original ==
    SizeScenario =>
        /\ OneSizeFlush
        /\ \A p \in Range(hist.recv) : add[p].pc = "returned" => SizeOutcome(p)

\* C10 amended: the same, the outcomes being those of a Write that returned no
\* error.
C10_FlushBySize ==
    SizeScenario =>
        /\ OneSizeFlush
        /\ (writes[1].ret.returned /\ writes[1].ret.err.isNil) =>
               \A p \in Range(hist.recv) :
                   add[p].pc = "returned" => SizeOutcome(p)

\* C10 witness: two concurrent Add calls of a batcher configured for two have
\* both returned a committed outcome, the timer case never taken.
C10_Witness ==
    /\ SizeScenario
    /\ batchSize = 2
    /\ \A p \in Range(hist.recv) : add[p].pc = "returned" /\ add[p].ret.err.isNil
    /\ {add[p].ret.res.Index : p \in Range(hist.recv)} = {0, 1}

\* No caller but p has begun a call: no other Add, no Close.
Alone(p) ==
    /\ \A q \in Producers \ {p} : add[q].pc = "idle"
    /\ \A c \in Closers : cls[c].pc = "idle"

\* p's Add call has returned, its leaf flushed alone by the timer case: one
\* ledger Write, of that leaf, and one outcome sent.
TimeoutOutcome(p) ==
    /\ add[p].pc = "returned"
    /\ hist.timerTaken
    /\ Len(writes) = 1
    /\ writes[1].items = <<p>>
    /\ writes[1].cause = "timer"
    /\ writes[1].ret.returned
    /\ Len(hist.sent[p]) = 1

\* C11: flush by timeout.  With a batch size above 1, an Add call that has
\* handed its 32-byte leaf to the scheduler while no other call has begun
\* eventually returns, its leaf flushed alone by the timer armed when it opened
\* the batch, unless another Add or a Close call begins first.
C11_FlushByTimeout ==
    \A p \in Producers :
        (add[p].pc = "wait" /\ batchSize > 1 /\ Alone(p))
            ~> (TimeoutOutcome(p) \/ ~Alone(p))

\* C11 witness: a lone Add call of a batcher configured for two has returned the
\* outcome of a batch flushed by the timer.
C11_Witness ==
    \E p \in Producers :
        /\ Alone(p)
        /\ batchSize = 2
        /\ TimeoutOutcome(p)
        /\ add[p].ret.err.isNil
        /\ add[p].ret.res.BatchSize = 1

FailedWrite(w) == writes[w].ret.returned /\ ~writes[w].ret.err.isNil

CommittedWrite(w) == writes[w].ret.returned /\ writes[w].ret.err.isNil

\* The step that ends a flush whose Write failed leaves the loop at its select
\* with no batch and no timer, the process alive and the loop not returned.
IdleAfterFailedFlush ==
    (/\ loopPc = "deliver"
     /\ loopPc' # "deliver"
     /\ FailedWrite(Len(writes)))
        => /\ loopPc' = "select"
           /\ batch' = <<>>
           /\ timerC' = "nil"
           /\ ~panicked'
           /\ ~done'

\* A Write committed after a failed one holds none of the failed batch's leaves,
\* its outcomes are those of a committed batch, and its Add calls return a nil
\* error, the Write's transaction id and a proof that verifies.
LaterWriteUnaffected ==
    \A w1, w2 \in 1..Len(writes) :
        (w1 < w2 /\ FailedWrite(w1) /\ CommittedWrite(w2)) =>
            /\ Range(writes[w1].items) \cap Range(writes[w2].items) = {}
            /\ UniformOutcomes(w2)
            /\ \A p \in Range(writes[w2].items) :
                   add[p].pc = "returned" =>
                       /\ add[p].ret.err.isNil
                       /\ add[p].ret.res.TxID = writes[w2].ret.txID
                       /\ VerifyMerkleProof(EncodeToString(add[p].leaf),
                                            JsonMarshal(add[p].ret.res.Proof),
                                            writes[w2].digest)
                              = [ok |-> TRUE, err |-> NilErr]

\* C12: a failed ledger Write leaves the scheduler idle and running.  The flush
\* that carried it ends with the loop at its select, batch empty and timer
\* unset; a Write committed later is unaffected by the failure; and an Add call
\* that waits for its outcome after a Write has failed still returns.
C12_IdleAfterLedgerFailure ==
    /\ [][IdleAfterFailedFlush]_vars
    /\ []LaterWriteUnaffected
    /\ \A p \in Producers :
           (add[p].pc = "wait" /\ \E w \in 1..Len(writes) : FailedWrite(w))
               ~> (add[p].pc = "returned")

\* C12 witness: the first Write failed with a plain message, the second one
\* committed, and the second leaf's Add call has returned its outcome.
C12_Witness ==
    /\ Len(writes) = 2
    /\ FailedWrite(1)
    /\ ErrorText(writes[1].ret.err) = <<"ledger down">>
    /\ CommittedWrite(2)
    /\ \A p \in Range(writes[2].items) :
           add[p].pc = "returned" /\ add[p].ret.err.isNil
    /\ loopPc = "select"
    /\ batch = <<>>

\* p's Add call was given a leaf that is not 32 bytes long.
BadLeafCall(p) == add[p].pc # "idle" /\ ByteLen(add[p].leaf) # DigestSize

\* Such a call has returned the zero result and an error, and its leaf is
\* nowhere in the scheduler: not queued, not in a batch, never received, in no
\* ledger Write, and no outcome was ever sent for it.
BadLeafKeptOut ==
    \A p \in Producers :
        BadLeafCall(p) =>
            /\ add[p].pc = "returned"
            /\ ~add[p].ret.err.isNil
            /\ add[p].ret.res = ZeroResult
            /\ p \notin Range(inQ)
            /\ p \notin Range(batch)
            /\ p \notin Range(fl.items)
            /\ p \notin Range(hist.recv)
            /\ WritesOf(p) = {}
            /\ resp[p] = <<>>
            /\ hist.sent[p] = <<>>

\* The step in which such a call begins is the step in which it returns, and
\* it changes nothing of the scheduler.
BadLeafStep ==
    \A p \in Producers :
        (add[p].pc = "idle" /\ add'[p].pc # "idle"
            /\ ByteLen(add'[p].leaf) # DigestSize)
        => /\ add'[p].pc = "returned"
           /\ UNCHANGED <<inQ, stop, done, panicked, loopPc, batch, timerC, fl,
                          resp, cls, writes, hist>>

\* C13: Add with a leaf that is not 32 bytes long returns an error at once and
\* leaves the scheduler as it was: the leaf is never queued or batched, no
\* timer is armed, no batch is opened and no ledger Write comes of it.
C13_BadLeafRejected == []BadLeafKeptOut /\ [][BadLeafStep]_vars

\* C13 witness: a 31-byte leaf has been rejected while another caller's leaf
\* sits in an open batch with its timer armed.
C13_Witness ==
    \E p \in Producers :
        /\ BadLeafCall(p)
        /\ add[p].pc = "returned"
        /\ ByteLen(add[p].leaf) = DigestSize - 1
        /\ Len(batch) = 1
        /\ timerC = "armed"
        /\ loopPc = "select"
        /\ writes = <<>>

\* The items of the first k ledger Writes, one batch after the other.
RECURSIVE FlushedItems(_)
FlushedItems(k) ==
    IF k = 0 THEN <<>> ELSE FlushedItems(k - 1) \o writes[k].items

\* The batches, in the order they were flushed, followed by the open batch,
\* are the leaves in the order the loop received them from the hand-off queue.
ArrivalOrderKept ==
    FlushedItems(Len(writes)) \o (IF loopPc = "select" THEN batch ELSE <<>>)
        = hist.recv

\* The digest written for batch w is the root of the tree built over its leaves
\* in batch order.
RootOverBatchOrder(w) ==
    writes[w].digest =
        EncodeToString(merkleRootFromLevels(
            buildMerkleLevels(LeavesOf(writes[w].items)).levels))

\* The outcomes sent for batch w carry each leaf's position in the batch as
\* Index and the proof derived for that position from the tree built over the
\* batch's leaves in batch order.
IndexIsPosition(w) ==
    \A p \in SentOf(w) :
        /\ FirstSent(p).Index = PosIn(w, p) - 1
        /\ FirstSent(p).Proof =
               merkleProof(buildMerkleLevels(LeavesOf(writes[w].items)).levels,
                           PosIn(w, p) - 1).proof

\* C14 as stated: in every batch the Index of a leaf's outcome is the position
\* at which the loop received the leaf into the batch, and the tree is built
\* over the leaves in that order.
C14_Original ==
    /\ ArrivalOrderKept
    /\ \A w \in 1..Len(writes) :
           RootOverBatchOrder(w) /\ (writes[w].ret.returned => IndexIsPosition(w))

\* C14 amended: the same, the outcomes being those of a batch whose ledger
\* Write returned no error.
C14_IndexIsArrivalOrder ==
    /\ ArrivalOrderKept
    /\ \A w \in 1..Len(writes) :
           RootOverBatchOrder(w) /\ (CommittedWrite(w) => IndexIsPosition(w))

\* C14 witness: a committed batch of two leaves that the loop received in the
\* order 2, 1; both outcomes are sent and both calls have returned.
C14_Witness ==
    /\ hist.recv = <<2, 1>>
    /\ Len(writes) = 1
    /\ CommittedWrite(1)
    /\ writes[1].items = <<2, 1>>
    /\ add[2].pc = "returned" /\ add[2].ret.res.Index = 0
    /\ add[1].pc = "returned" /\ add[1].ret.res.Index = 1
    /\ Len(add[1].ret.res.Proof) = 1

\* The triple proved in the tree-function run, before any tampering.
OrigLeaf == mk.leaves[mk.index + 1]

OrigRoot == merkleRootFromLevels(mk.built.levels)

OrigProof == mk.proof.proof

\* The steps the proof string passed to VerifyMerkleProof spells.
PassedProof == JsonUnmarshal(mk.proofJSON).val

\* The tree was built over 32-byte leaves, as every batch's is.
AllDigests == \A k \in 1..Len(mk.leaves) : ByteLen(mk.leaves[k]) = DigestSize

\* Hex string h decodes, to another value than b of b's length.
SameLenOther(h, b) ==
    /\ DecodeString(h).err.isNil
    /\ ByteLen(DecodeString(h).val) = ByteLen(b)
    /\ DecodeString(h).val # b

LeafReplaced == mk.tamper = "leaf" /\ SameLenOther(mk.leafHex, OrigLeaf)

\* One step's sibling hash was replaced, its side and the other steps kept.
SiblingReplaced ==
    /\ mk.tamper = "step"
    /\ \E k \in 1..Len(OrigProof) :
           /\ PassedProof[k].Side = OrigProof[k].Side
           /\ SameLenOther(PassedProof[k].Hash, DecodeString(OrigProof[k].Hash).val)

\* C15: tamper detection.  For the triple of any leaf of a tree over 32-byte
\* leaves, with the leaf replaced by another value of the same length, or one
\* proof sibling hash replaced by another value of the same length,
\* VerifyMerkleProof returns (false, nil).
C15_TamperDetected ==
    (mk.pc = "verified" /\ AllDigests /\ (LeafReplaced \/ SiblingReplaced))
        => mk.verdict = [ok |-> FALSE, err |-> NilErr]

\* C15 witness: in a tree of five leaves the second of three proof steps had
\* its sibling replaced by the digest of another pair, and the answer was
\* (false, nil).
C15_Witness ==
    /\ mk.pc = "verified"
    /\ AllDigests
    /\ Len(mk.leaves) = 5
    /\ Len(OrigProof) = 3
    /\ SiblingReplaced
    /\ PassedProof[2] # OrigProof[2]
    /\ DecodeString(PassedProof[2].Hash).val[1].op = "sha256"
    /\ mk.verdict = [ok |-> FALSE, err |-> NilErr]

\* Hex string h decodes, to a value that is not 32 bytes long.
WrongLen(h) ==
    /\ DecodeString(h).err.isNil
    /\ ByteLen(DecodeString(h).val) # DigestSize

\* One field of the triple passed to VerifyMerkleProof is of the wrong length:
\* the leaf hash, the expected root or the hash of one proof step.
WrongLengthField ==
    \/ mk.tamper = "leaf" /\ WrongLen(mk.leafHex)
    \/ mk.tamper = "root" /\ WrongLen(mk.rootHex)
    \/ /\ mk.tamper = "step"
       /\ \E k \in 1..Len(OrigProof) :
              /\ PassedProof[k].Side = OrigProof[k].Side
              /\ WrongLen(PassedProof[k].Hash)

\* C16: VerifyMerkleProof reports a wrong-length field as malformed input.  When
\* the leaf hash, the expected root or a proof sibling hash decodes to another
\* length than 32 bytes, it returns an error, not (false, nil).
C16_WrongLengthIsError ==
    (mk.pc = "verified" /\ AllDigests /\ WrongLengthField)
        => (~mk.verdict.ok /\ ~mk.verdict.err.isNil)

\* The root a proof implies, as the proof format defines it: start from the
\* leaf and take the steps in order, "L" giving digest(sibling || current) and
\* "R" giving digest(current || sibling).  Meant for steps whose hashes decode
\* and whose sides are "L" or "R".
RECURSIVE ImpliedRoot(_, _)
ImpliedRoot(current, steps) ==
    IF steps = <<>> THEN current
    ELSE LET sibling == Head(steps).Hash.digits
         IN  ImpliedRoot(IF Head(steps).Side = "L"
                         THEN Sum256(sibling \o current)
                         ELSE Sum256(current \o sibling),
                         Tail(steps))

Undecodable(h) == ~DecodeString(h).err.isNil

\* The input of VerifyMerkleProof is syntactically invalid: a hex string that
\* does not decode, a proof string that does not parse, or a side marker that
\* is neither "L" nor "R".
Malformed ==
    \/ Undecodable(mk.leafHex)
    \/ Undecodable(mk.rootHex)
    \/ ~mk.proofJSON.valid
    \/ \E k \in 1..Len(PassedProof) :
           \/ Undecodable(PassedProof[k].Hash)
           \/ PassedProof[k].Side \notin {"L", "R"}

\* The input is well formed, its leaf is not the empty string, and the root
\* its proof implies is not the expected one.
CleanMismatch ==
    /\ ~Malformed
    /\ ByteLen(DecodeString(mk.leafHex).val) > 0
    /\ ImpliedRoot(DecodeString(mk.leafHex).val, PassedProof)
           # DecodeString(mk.rootHex).val

\* C17: VerifyMerkleProof tells malformed from tampered.  A malformed input
\* yields (false, error) and so never true; a well-formed one whose implied
\* root is not the expected root yields (false, nil).
C17_MalformedVersusMismatch ==
    mk.pc = "verified" =>
        /\ Malformed => (~mk.verdict.ok /\ ~mk.verdict.err.isNil)
        /\ CleanMismatch => mk.verdict = [ok |-> FALSE, err |-> NilErr]

\* C17 witness: a proof whose last step carries the side "X" was answered with
\* an error.
C17_Witness ==
    /\ mk.pc = "verified"
    /\ mk.tamper = "step"
    /\ Len(PassedProof) = 2
    /\ PassedProof[2].Side = "X"
    /\ PassedProof[2].Hash = OrigProof[2].Hash
    /\ mk.verdict = [ok |-> FALSE, err |-> ErrorsNew(<<"invalid proof side">>)]

\* C18: proof step semantics.  Every proof merkleProof derives (the proofs the
\* scheduler emits) has only the sides "L" and "R"; and for every well-formed
\* leaf and proof, tampered or not, computeRootFromProof returns the root the
\* steps imply when taken in order from the leaf, "L" as digest(sibling ||
\* current) and "R" as digest(current || sibling).
C18_StepSemantics ==
    mk.pc \in {"proved", "verified"} =>
        /\ \A k \in 1..Len(OrigProof) : OrigProof[k].Side \in {"L", "R"}
        /\ (~Malformed /\ ByteLen(DecodeString(mk.leafHex).val) > 0) =>
               computeRootFromProof(DecodeString(mk.leafHex).val, PassedProof)
                   = [root |-> ImpliedRoot(DecodeString(mk.leafHex).val, PassedProof),
                      err |-> NilErr]

\* C18 witness: the proof of the third of four leaves, an "R" step followed by
\* an "L" step, has been verified.
C18_Witness ==
    /\ mk.pc = "verified"
    /\ mk.tamper = "none"
    /\ Len(mk.leaves) = 4
    /\ mk.index = 2
    /\ mk.leaves[3] # mk.leaves[4]
    /\ Len(OrigProof) = 2
    /\ OrigProof[1].Side = "R"
    /\ OrigProof[2].Side = "L"
    /\ mk.verdict.ok

\* The least k with 2^k >= n, for n >= 1.
RECURSIVE CeilLog2(_)
CeilLog2(n) == IF n <= 1 THEN 0 ELSE 1 + CeilLog2((n + 1) \div 2)

\* C19: proof length.  For a tree built over N leaves, the proof of every leaf
\* has (number of levels - 1) steps, which is the ceiling of log2 N: 0 steps
\* for N = 1, and one length for all N leaves, N odd or a power of two alike.
C19_ProofLength ==
    (mk.pc # "start" /\ mk.pc # "off" /\ mk.built.err.isNil) =>
        /\ Len(mk.built.levels) - 1 = CeilLog2(Len(mk.leaves))
        /\ \A i \in 0..(Len(mk.leaves) - 1) :
               /\ merkleProof(mk.built.levels, i).err.isNil
               /\ Len(merkleProof(mk.built.levels, i).proof)
                      = Len(mk.built.levels) - 1
        /\ mk.pc \in {"proved", "verified"} =>
               Len(OrigProof) = CeilLog2(Len(mk.leaves))

\* C19 witness: the last of five leaves, a node paired with itself on its way
\* up, has a proof of three steps; the tree has four levels.
C19_Witness ==
    /\ mk.pc = "proved"
    /\ Len(mk.leaves) = 5
    /\ mk.index = 4
    /\ Len(mk.built.levels) = 4
    /\ Len(OrigProof) = 3
    /\ OrigProof[1].Hash = EncodeToString(mk.leaves[5])

\* What NewMerkleBatcher makes of the values it is given: a batch size below 1
\* becomes 1 and a deadline that is not positive becomes the positive default;
\* other values are kept.
ConfigNormalised ==
    /\ \A n \in BatchSizeInputs :
           NormalBatchSize(n) = (IF n >= 1 THEN n ELSE 1)
    /\ \A d \in MaxWaitInputs :
           /\ NormalMaxWait(d) > 0
           /\ d > 0 => NormalMaxWait(d) = d
    /\ batchSize >= 1
    /\ maxWait > 0

\* With batch size 1 the loop never holds a leaf at its select: every leaf it
\* receives is flushed alone by the receipt itself, with a ledger Write of its
\* own, and a committed leaf's outcome has BatchSize 1 and Index 0.
OneLeafPerWrite ==
    /\ loopPc = "select" => batch = <<>>
    /\ Len(writes) = Len(hist.recv)
    /\ \A w \in 1..Len(writes) :
           /\ writes[w].items = <<hist.recv[w]>>
           /\ writes[w].cause = "size"
           /\ writes[w].meta.leaves = 1
           /\ CommittedWrite(w) =>
                  \A p \in SentOf(w) :
                      FirstSent(p).BatchSize = 1 /\ FirstSent(p).Index = 0

\* A partial batch waiting at the loop's select is below the batch size and
\* has its deadline timer running or due.
PartialBatchHasTimer ==
    (loopPc = "select" /\ batch # <<>>) =>
        /\ Len(batch) < batchSize
        /\ timerC \in {"armed", "fired"}

Observable(res) ==
    [Root |-> res.Root, TxID |-> res.TxID, Index |-> res.Index,
     BatchSize |-> res.BatchSize, Proof |-> res.Proof, Err |-> res.Err]

\* The outcome of the leaf at position i (0-based) of a batch, as the batch's
\* leaf sequence and the ledger's response alone determine it.
OutcomeOf(leaves, ret, i) ==
    IF ~ret.err.isNil
    THEN [Root |-> EmptyString, TxID |-> <<>>, Index |-> 0, BatchSize |-> 0,
          Proof |-> <<>>, Err |-> ErrorText(ret.err)]
    ELSE [Root |-> EncodeToString(merkleRootFromLevels(
                       buildMerkleLevels(leaves).levels)),
          TxID |-> ret.txID, Index |-> i, BatchSize |-> Len(leaves),
          Proof |-> merkleProof(buildMerkleLevels(leaves).levels, i).proof,
          Err |-> <<>>]

\* C21: the flush trigger is not observable.  The outcome sent to each caller
\* of a batch, and what its Add call returns, is a function of the batch's
\* leaf sequence, the leaf's position and the ledger's response; whether the
\* size threshold, the timer or the stop signal started the flush plays no part.
C21_TriggerUnobservable ==
    \A w \in 1..Len(writes) :
        writes[w].ret.returned =>
            \A p \in SentOf(w) :
                LET expected == OutcomeOf(LeavesOf(writes[w].items),
                                          writes[w].ret, PosIn(w, p) - 1)
                IN  /\ Observable(FirstSent(p)) = expected
                    /\ add[p].pc = "returned" =>
                           /\ Observable(add[p].ret.res)
                                  = Observable(AddResult(expected).res)
                           /\ add[p].ret.err = AddResult(expected).err

\* C21 witness: in one run a one-leaf batch was flushed by the timer and another
\* by the stop case; both were committed and both callers hold a one-leaf
\* outcome with an empty proof.
C21_Witness ==
    /\ Len(writes) = 2
    /\ writes[1].cause = "timer"
    /\ writes[2].cause = "stop"
    /\ CommittedWrite(1) /\ CommittedWrite(2)
    /\ \A p \in Producers :
           /\ add[p].pc = "returned"
           /\ add[p].ret.err.isNil
           /\ add[p].ret.res.BatchSize = 1
           /\ add[p].ret.res.Proof = <<>>

\* A flush is in progress: the batch is sealed, its Write is out or its
\* outcomes are being sent.
Flushing == loopPc \in {"ledger", "deliver"}

\* The flush of writes[w] has ended.
FlushEnded(w) == w < Len(writes) \/ ~Flushing

\* The batch being flushed is the one its Write was issued for; the digest
\* written for a batch is the root over its leaves and its record counts them;
\* only leaves of a flushed batch are sent outcomes, and once a flush has ended
\* the leaves that were sent its outcomes are exactly the batch's.
SealedBatches ==
    /\ Flushing => (fl.items = writes[Len(writes)].items /\ batch = fl.items)
    /\ \A w \in 1..Len(writes) :
           /\ writes[w].items # <<>>
           /\ RootOverBatchOrder(w)
           /\ writes[w].meta.leaves = Len(writes[w].items)
           /\ FlushEnded(w) => SentOf(w) = Range(writes[w].items)
    /\ \A p \in Producers : hist.sent[p] # <<>> => WritesOf(p) # {}

\* No step changes the leaves or the digest of a batch once its Write is
\* issued; while a flush is in progress the loop receives nothing (arriving
\* leaves stay in the hand-off queue), keeps the batch as it is and issues no
\* further Write.
SealedStep ==
    /\ Len(writes') >= Len(writes)
    /\ \A w \in 1..Len(writes) :
           /\ writes'[w].items = writes[w].items
           /\ writes'[w].digest = writes[w].digest
    /\ Flushing =>
           /\ hist'.recv = hist.recv
           /\ Len(inQ') >= Len(inQ)
           /\ SubSeq(inQ', 1, Len(inQ)) = inQ
           /\ Len(writes') = Len(writes)
           /\ fl'.items = fl.items \/ fl' = NoFlush
           /\ loopPc' \in {"ledger", "deliver"} => batch' = batch

\* C22: a batch is sealed at most once and no leaf joins it after its flush has
\* started.  A leaf that arrives during a flush stays in the hand-off queue;
\* the leaves given to the tree builder are the leaves that get the flush's
\* outcomes.
C22_SealedOnce == []SealedBatches /\ [][SealedStep]_vars

\* C22 witness: while the outcomes of a one-leaf batch are being sent, another
\* caller's leaf has arrived and waits in the hand-off queue.
C22_Witness ==
    /\ loopPc = "deliver"
    /\ batchSize = 1
    /\ Len(fl.items) = 1
    /\ Len(inQ) = 1
    /\ inQ[1] \notin Range(fl.items)
    /\ add[inQ[1]].pc = "wait"
    /\ Len(writes) = 1

\* No leaf is in two ledger Writes: no batch is flushed twice.
NoDoubleFlush ==
    \A w1, w2 \in 1..Len(writes) :
        w1 # w2 => Range(writes[w1].items) \cap Range(writes[w2].items) = {}

\* A flush started by the size threshold is of a full batch and one started by
\* the timer is of a partial one; while a flush started by the size threshold
\* runs the timer is stopped, so the two events never both flush a batch.
OneCausePerFlush ==
    /\ \A w \in 1..Len(writes) :
           /\ writes[w].cause = "size" => Len(writes[w].items) = batchSize
           /\ writes[w].cause = "timer" =>
                  (Len(writes[w].items) \in 1..(batchSize - 1) /\ hist.timerTaken)
    /\ (Flushing /\ fl.cause = "size") => timerC = "stopped"
    /\ (Flushing /\ fl.cause = "timer") => Len(batch) < batchSize

\* Between batches the loop has no timer: none is left over from a flushed
\* batch.
NoTimerBetweenBatches == (loopPc = "select" /\ batch = <<>>) => timerC = "nil"

\* The step that opens a batch arms a timer that has not fired, and the timer
\* fires only for the batch that is open; the timer case flushes only a batch
\* whose own timer has fired.
FreshTimerStep ==
    /\ (loopPc = "select" /\ batch = <<>> /\ loopPc' = "select" /\ batch' # <<>>)
           => timerC' = "armed"
    /\ (timerC # "fired" /\ timerC' = "fired")
           => (loopPc = "select" /\ batch # <<>> /\ batch' = batch)
    /\ (Len(writes') > Len(writes) /\ writes'[Len(writes')].cause = "timer")
           => (timerC = "fired" /\ writes'[Len(writes')].items = batch)

\* C23: first cause wins.  The size threshold and the timer cause at most one
\* flush of a batch between them; a batch is never flushed twice; and the
\* timer of a flushed batch neither flushes a later batch nor shortens its
\* deadline, since each batch's timer is armed anew by its own first leaf.
C23_FirstCauseWins ==
    /\ [](NoDoubleFlush /\ OneCausePerFlush /\ NoTimerBetweenBatches)
    /\ [][FreshTimerStep]_vars

\* C23 witness: a batch whose timer was armed by its first leaf was filled by
\* the second; the size threshold flushed it, once, the timer case was never
\* taken, and the loop is back at its select without a timer.
C23_Witness ==
    /\ batchSize = 2
    /\ Len(writes) = 1
    /\ writes[1].cause = "size"
    /\ writes[1].ret.returned
    /\ ~hist.timerTaken
    /\ loopPc = "select"
    /\ batch = <<>>
    /\ timerC = "nil"
    /\ \A p \in Producers : Len(hist.sent[p]) = 1

\* C24: whenever the loop waits at its select, the deadline timer is pending
\* (running or due) exactly when the open batch is not empty.
C24_TimerIffBatch ==
    loopPc = "select" => ((timerC \in {"armed", "fired"}) <=> (batch # <<>>))

\* C24 witness: the loop waits with one leaf in its batch and the timer armed,
\* after an earlier batch was flushed.
C24_Witness ==
    /\ loopPc = "select"
    /\ Len(batch) = 1
    /\ timerC = "armed"
    /\ Len(writes) = 1
    /\ writes[1].ret.returned

\* The ledger Write calls that have not returned.
PendingWrites == {w \in 1..Len(writes) : ~writes[w].ret.returned}

\* C25: the ledger Write is called at most once per flush and no two Write
\* calls are in progress together.  At most one Write is pending, it is the
\* latest one and it is pending exactly while the loop is inside that call;
\* the Write issued for the flush in progress carries that flush's batch, and
\* no two Writes carry a leaf in common.
C25_WritesSerialized ==
    /\ Cardinality(PendingWrites) <= 1
    /\ PendingWrites \subseteq {Len(writes)}
    /\ (PendingWrites # {}) <=> (loopPc = "ledger")
    /\ Flushing => fl.items = writes[Len(writes)].items
    /\ NoDoubleFlush

\* C25 witness: after a first Write has returned, a second one is in progress
\* for another batch.
C25_Witness ==
    /\ Len(writes) = 2
    /\ writes[1].ret.returned
    /\ PendingWrites = {2}
    /\ loopPc = "ledger"

\* The leaves of a batch whose Write failed, once its flush has ended, are
\* nowhere in the scheduler and in no other Write, and each was sent the one
\* outcome of the failure.
FailedBatchDiscarded ==
    \A w \in 1..Len(writes) :
        (FailedWrite(w) /\ FlushEnded(w)) =>
            \A p \in Range(writes[w].items) :
                /\ p \notin Range(inQ)
                /\ p \notin Range(batch)
                /\ WritesOf(p) = {w}
                /\ Len(hist.sent[p]) = 1
                /\ FirstSent(p).Err = ErrorText(writes[w].ret.err)

\* C26: no retry, re-queue or split.  The leaves the loop has received are, in
\* order and each once, the flushed batches followed by the open batch; a leaf
\* is in at most one ledger Write and none once received is back in the queue;
\* when the loop has returned every received leaf is in exactly one Write; and
\* the leaves of a failed Write are discarded, the Write not issued again.
C26_NoRetryNoRequeue ==
    /\ ArrivalOrderKept
    /\ \A p \in Producers :
           /\ Cardinality({k \in 1..Len(hist.recv) : hist.recv[k] = p}) <= 1
           /\ Cardinality(WritesOf(p)) <= 1
           /\ p \in Range(hist.recv) => p \notin Range(inQ)
    /\ loopPc = "done" =>
           \A p \in Range(hist.recv) : Cardinality(WritesOf(p)) = 1
    /\ FailedBatchDiscarded

\* C26 witness: a batch of two leaves failed at the ledger; both callers have
\* their error, the loop waits with nothing in hand and only that one Write was
\* ever issued.
C26_Witness ==
    /\ Len(writes) = 1
    /\ FailedWrite(1)
    /\ Len(writes[1].items) = 2
    /\ loopPc = "select"
    /\ batch = <<>>
    /\ inQ = <<>>
    /\ \A p \in Producers : add[p].pc = "returned" /\ ~add[p].ret.err.isNil

\* C27: one-shot result slot.  No leaf is ever sent two outcomes and no slot
\* ever holds two; when a flush has ended every leaf of its batch has been sent
\* exactly one, whether the Write failed or not; and whenever the loop is about
\* to send an outcome the slot is empty, so the send does not block.
C27_OneShotSlot ==
    /\ \A p \in Producers : Len(hist.sent[p]) <= 1 /\ Len(resp[p]) <= 1
    /\ \A w \in 1..Len(writes) :
           FlushEnded(w) =>
               \A p \in Range(writes[w].items) : Len(hist.sent[p]) = 1
    /\ loopPc = "deliver" =>
           /\ fl.i \in 1..Len(fl.items)
           /\ resp[fl.items[fl.i]] = <<>>
           /\ hist.sent[fl.items[fl.i]] = <<>>

\* C27 witness: a batch of two leaves has been flushed to its end and the loop
\* is back at its select while neither caller has taken its outcome from its
\* slot yet.
C27_Witness ==
    /\ Len(writes) = 1
    /\ Len(writes[1].items) = 2
    /\ loopPc = "select"
    /\ \A p \in Producers :
           add[p].pc = "wait" /\ Len(resp[p]) = 1 /\ Len(hist.sent[p]) = 1

\* The tree-function run has built a tree.
MkBuilt == mk.pc \notin {"start", "off"} /\ mk.built.err.isNil

\* C28: tree construction.  Level 0 of buildMerkleLevels is the leaves in input
\* order; each next level has half as many nodes, rounded up, node j being the
\* digest of the j-th pair of the level below, with the last node of a level of
\* odd length paired with itself; and the levels end with the first level of
\* length 1.
C28_TreeConstruction ==
    MkBuilt =>
        LET L == mk.built.levels
        IN  /\ L[1] = mk.leaves
            /\ Len(L[Len(L)]) = 1
            /\ \A k \in 1..(Len(L) - 1) :
                   /\ Len(L[k]) > 1
                   /\ Len(L[k + 1]) = (Len(L[k]) + 1) \div 2
                   /\ \A j \in 1..Len(L[k + 1]) :
                          L[k + 1][j] =
                              Sum256(L[k][2 * j - 1] \o
                                     (IF 2 * j <= Len(L[k]) THEN L[k][2 * j]
                                      ELSE L[k][2 * j - 1]))

\* C28 witness: a tree over five leaves has levels of 5, 3, 2 and 1 nodes, the
\* third node of level 1 being the digest of the fifth leaf paired with itself.
C28_Witness ==
    /\ mk.pc = "built"
    /\ mk.built.err.isNil
    /\ Len(mk.leaves) = 5
    /\ mk.leaves[1] # mk.leaves[2]
    /\ [k \in 1..Len(mk.built.levels) |-> Len(mk.built.levels[k])] = <<5, 3, 2, 1>>
    /\ mk.built.levels[2][3] = Sum256(mk.leaves[5] \o mk.leaves[5])

RECURSIVE Pow2(_)
Pow2(k) == IF k = 0 THEN 1 ELSE 2 * Pow2(k - 1)

\* The step the derivation rule prescribes at level lvl (0-based) for leaf
\* index i: the running index is i / 2^lvl; odd, the node before it with side
\* "L"; even, the node after it with side "R", or the node itself with side
\* "R" when there is none after it.
RuleStep(levels, lvl, i) ==
    LET nodes == levels[lvl + 1]
        idx   == i \div Pow2(lvl)
    IN  IF idx % 2 = 1
        THEN [Hash |-> EncodeToString(nodes[idx]), Side |-> "L"]
        ELSE IF idx + 1 < Len(nodes)
        THEN [Hash |-> EncodeToString(nodes[idx + 2]), Side |-> "R"]
        ELSE [Hash |-> EncodeToString(nodes[idx + 1]), Side |-> "R"]

\* C29: proof derivation.  The proof of leaf index i has one step for each
\* level below the root, in order from the leaves up, and each is the step the
\* rule prescribes; the node without a neighbour is recorded, not skipped.
C29_ProofDerivation ==
    mk.pc \in {"proved", "verified"} =>
        /\ Len(OrigProof) = Len(mk.built.levels) - 1
        /\ \A k \in 1..Len(OrigProof) :
               OrigProof[k] = RuleStep(mk.built.levels, k - 1, mk.index)

\* C29 witness: the proof of the last of three leaves, the first two unlike: the
\* leaf itself with side "R", then the digest of the first pair with side "L".
C29_Witness ==
    /\ mk.pc = "proved"
    /\ Len(mk.leaves) = 3
    /\ mk.index = 2
    /\ mk.leaves[1] # mk.leaves[2]
    /\ OrigProof =
           <<[Hash |-> EncodeToString(mk.leaves[3]), Side |-> "R"],
             [Hash |-> EncodeToString(Sum256(mk.leaves[1] \o mk.leaves[2])),
              Side |-> "L"]>>

\* The leaf list is empty or holds a leaf of length zero.
BadLeafList ==
    Len(mk.leaves) = 0 \/ \E k \in 1..Len(mk.leaves) : ByteLen(mk.leaves[k]) = 0

\* C30: validation gives no partial results.  buildMerkleLevels on an empty
\* list or a list with a zero-length leaf returns an error and no levels;
\* merkleProof for an index below 0 or not below the number of leaves returns
\* an error and no proof; computeRootFromProof on a proof with a side that is
\* neither "L" nor "R" returns an error and no root.
C30_NoPartialResults ==
    /\ mk.pc \notin {"start", "off"} =>
           /\ BadLeafList <=> ~mk.built.err.isNil
           /\ ~mk.built.err.isNil => mk.built.levels = <<>>
    /\ mk.pc \in {"noproof", "proved", "verified"} =>
           /\ (mk.index < 0 \/ mk.index >= Len(mk.leaves)) <=> ~mk.proof.err.isNil
           /\ ~mk.proof.err.isNil => (mk.proof.proof = <<>> /\ mk.pc = "noproof")
    /\ (/\ mk.pc \in {"proved", "verified"}
        /\ mk.proofJSON.valid
        /\ \E k \in 1..Len(PassedProof) : PassedProof[k].Side \notin {"L", "R"})
           => LET got == computeRootFromProof(OrigLeaf, PassedProof)
              IN  got.root = <<>> /\ ~got.err.isNil

\* C30 witness: merkleProof was asked for index 3 of a tree of three leaves and
\* returned "leaf index out of range" and no proof.
C30_Witness ==
    /\ mk.pc = "noproof"
    /\ Len(mk.leaves) = 3
    /\ mk.index = 3
    /\ mk.proof = [proof |-> <<>>, err |-> ErrorsNew(<<"leaf index out of range">>)]

\* The record of writes[w] names the digest as its root, counts the leaves of
\* the batch and names the two hash algorithms.
RecordOfBatch(w) ==
    /\ writes[w].meta.type = "merkle_batch"
    /\ writes[w].meta.root = writes[w].digest
    /\ writes[w].meta.leaves = Len(writes[w].items)
    /\ writes[w].meta.leaf_algo = "sha256(file_bytes)"
    /\ writes[w].meta.node_algo = "sha256(l||r)"

\* Every outcome sent for batch w reports the record's leaf count as BatchSize.
CountIsBatchSize(w) ==
    \A p \in SentOf(w) : FirstSent(p).BatchSize = writes[w].meta.leaves

\* C31 as stated: each flush calls Write with the batch's root as digest and a
\* record whose root is that digest and whose leaf count is the number of
\* leaves of the batch, the number its outcomes report as BatchSize.
C31_Original ==
    \A w \in 1..Len(writes) :
        RootOverBatchOrder(w) /\ RecordOfBatch(w) /\ CountIsBatchSize(w)

\* C31 amended: each flush calls Write with the batch's root as digest and a
\* record whose root is that digest and whose leaf count is the number of
\* leaves of the batch; when the Write returned no error that count is the
\* BatchSize of the batch's outcomes.
C31_WriteCarriesRootAndCount ==
    \A w \in 1..Len(writes) :
        /\ RootOverBatchOrder(w)
        /\ RecordOfBatch(w)
        /\ CommittedWrite(w) => CountIsBatchSize(w)

\* C31 witness: with batch size 2 a batch of one leaf was flushed by the timer;
\* its Write carried the leaf's hex as digest and a record counting one leaf,
\* returned no error, and the caller was returned BatchSize 1.
C31_Witness ==
    /\ batchSize = 2
    /\ Len(writes) = 1
    /\ writes[1].cause = "timer"
    /\ writes[1].items = <<1>>
    /\ writes[1].digest = EncodeToString(add[1].leaf)
    /\ writes[1].meta.leaves = 1
    /\ CommittedWrite(1)
    /\ add[1].pc = "returned"
    /\ add[1].ret.res.BatchSize = 1

\* The number of times p's item is in the hand-off queue or has been received
\* from it by the loop.
Admitted(p) ==
    Cardinality({k \in 1..Len(inQ) : inQ[k] = p})
        + Cardinality({k \in 1..Len(hist.recv) : hist.recv[k] = p})

\* p's Add call is at its select and b.in is full: the send case is not ready.
BlockedOnFullQueue(p) == add[p].pc = "send" /\ Len(inQ) = QueueCap

\* The queue never holds more than its capacity; the leaf of a call that has
\* not passed its select is nowhere in the batcher, the leaf of a call that
\* passed it by the send case was admitted exactly once, and a call that
\* passed it by the stop case returned the "stopped" error with its leaf
\* admitted nowhere.
HandOffKeepsLeaves ==
    /\ Len(inQ) <= QueueCap
    /\ \A p \in DOMAIN add :
           /\ add[p].pc \in {"idle", "send"} => Admitted(p) = 0
           /\ add[p].pc = "wait" => Admitted(p) = 1
           /\ add[p].pc = "returned" =>
                  \/ add[p].ret.err = StoppedErr /\ Admitted(p) = 0
                  \/ add[p].ret.err # StoppedErr /\ Admitted(p) = 1

\* A call leaves its select either by the send case, and then there was room
\* and its item is the new last element of the queue, or by the stop case, and
\* then the stop signal was raised, the queue is untouched and the call has
\* returned the "stopped" error.  So a call blocked on a full queue stays there
\* until space frees or shutdown is signalled.
SelectLeftStep ==
    \A p \in DOMAIN add :
        (add[p].pc = "send" /\ add'[p].pc # "send") =>
            \/ /\ Len(inQ) < QueueCap
               /\ add'[p].pc = "wait"
               /\ inQ' = Append(inQ, p)
            \/ /\ stop
               /\ add'[p].pc = "returned"
               /\ add'[p].ret = [res |-> ZeroResult, err |-> StoppedErr]
               /\ inQ' = inQ

\* C32: bounded hand-off.  An Add call whose select finds the queue full stays
\* at the select, its leaf neither lost nor duplicated, until space frees (the
\* leaf is then admitted once) or shutdown is signalled (the call then returns
\* the "stopped" error); once Close has raised the stop signal with calls
\* blocked on a full queue, a moment comes at which no call is at its select,
\* so each of the blocked calls has left it.
C32_BoundedHandOff ==
    /\ []HandOffKeepsLeaves
    /\ [][SelectLeftStep]_vars
    /\ (stop /\ \E p \in QueueProducers : BlockedOnFullQueue(p))
           ~> (\A p \in QueueProducers : add[p].pc # "send")

\* C32 witness: four items fill the queue of a batcher of batch size 1, none
\* taken by the loop yet; the fifth call is blocked at its select and Close
\* has just raised the stop signal.
C32_Witness ==
    /\ QueueCap = 4
    /\ Len(inQ) = QueueCap
    /\ hist.recv = <<>>
    /\ \E p \in QueueProducers : BlockedOnFullQueue(p)
    /\ stop
    /\ cls["c1"].pc = "waitdone"

\* The root, in hex, of the tree buildMerkleLevels makes of a leaf list.
RootHexOf(leaves) ==
    EncodeToString(merkleRootFromLevels(buildMerkleLevels(leaves).levels))

\* The leaf list with its last leaf given once more.
LastRepeated(leaves) == Append(leaves, leaves[Len(leaves)])

\* For a built tree over an odd number N > 1 of leaves: the list with the last
\* leaf repeated has the same root, and the proof derived from that longer
\* tree for its index N verifies the leaf against the root of the shorter one.
ShorterCollides ==
    (MkBuilt /\ Len(mk.leaves) > 1 /\ Len(mk.leaves) % 2 = 1) =>
        LET N      == Len(mk.leaves)
            longer == LastRepeated(mk.leaves)
            proof  == merkleProof(buildMerkleLevels(longer).levels, N)
        IN  /\ longer # mk.leaves
            /\ RootHexOf(longer) = RootHexOf(mk.leaves)
            /\ proof.err.isNil
            /\ VerifyMerkleProof(EncodeToString(longer[N + 1]),
                                 JsonMarshal(proof.proof),
                                 RootHexOf(mk.leaves))
                   = [ok |-> TRUE, err |-> NilErr]

\* For a tree over N + 1 leaves, N odd and > 1, whose last two leaves are
\* equal: its root is the root of the tree over the first N leaves, and the
\* proof for its index N, passed on unchanged, has verified.
LongerCollides ==
    LET N == Len(mk.leaves) - 1
    IN  (/\ MkBuilt
         /\ N > 1 /\ N % 2 = 1
         /\ mk.leaves[N + 1] = mk.leaves[N])
            => /\ RootHexOf(mk.leaves) = RootHexOf(SubSeq(mk.leaves, 1, N))
               /\ (mk.pc = "verified" /\ mk.tamper = "none" /\ mk.index = N)
                      => /\ mk.rootHex = RootHexOf(SubSeq(mk.leaves, 1, N))
                         /\ mk.verdict = [ok |-> TRUE, err |-> NilErr]

\* C33: duplicate-leaf root collision.  For every odd N > 1 the root over
\* [l1..lN] equals the root over [l1..lN, lN], and the proof for index N of
\* the longer list verifies against the root of the shorter one.
C33_DuplicateLeafCollision == ShorterCollides /\ LongerCollides

\* C33 witness: the proof for index 3 of the tree over [l1, l2, l1, l1] has
\* verified against that tree's root, which is the root over [l1, l2, l1].
C33_Witness ==
    /\ mk.pc = "verified"
    /\ mk.tamper = "none"
    /\ Len(mk.leaves) = 4
    /\ mk.leaves[1] # mk.leaves[2]
    /\ mk.leaves[3] = mk.leaves[4]
    /\ AllDigests
    /\ mk.index = 3
    /\ mk.verdict.ok
    /\ mk.rootHex = RootHexOf(SubSeq(mk.leaves, 1, 3))

\* C34: the deadline is respected on admission.  Once the open batch's timer
\* has fired the loop takes no further leaf from the hand-off queue into that
\* batch: the next step of the loop flushes the batch as it stands.
C34_DeadlineRespected ==
    [][(loopPc = "select" /\ timerC = "fired") => hist'.recv = hist.recv]_vars

\* Where the loop waits the open batch is below the configured size; every
\* batch a Write was issued for holds between 1 and batchSize leaves; and a
\* stop case taken with nothing accumulated issued no Write.
BatchWithinBound ==
    /\ loopPc = "select" => Len(batch) < batchSize
    /\ \A w \in 1..Len(writes) : Len(writes[w].items) \in 1..batchSize
    /\ (hist.stopTaken /\ hist.stopBatch = <<>>) =>
           \A w \in 1..Len(writes) : writes[w].cause # "stop"
    /\ ~hist.stopTaken => \A w \in 1..Len(writes) : writes[w].cause # "stop"

\* Every outcome sent for batch w reports a BatchSize between 1 and batchSize.
ReportedSizeWithinBound(w) ==
    \A p \in SentOf(w) : FirstSent(p).BatchSize \in 1..batchSize

\* C35 as stated: the open batch is below batchSize wherever the loop waits,
\* every flushed batch and every reported BatchSize is between 1 and batchSize,
\* and no Write is issued for an empty batch.
C35_Original ==
    /\ BatchWithinBound
    /\ \A w \in 1..Len(writes) : ReportedSizeWithinBound(w)

\* C35 amended: the same, the reported BatchSize being that of the outcomes of
\* a batch whose ledger Write returned no error; it is then the number of
\* leaves of the batch.
C35_BatchSizeBound ==
    /\ BatchWithinBound
    /\ \A w \in 1..Len(writes) :
           CommittedWrite(w) => ReportedSizeWithinBound(w) /\ CountIsBatchSize(w)

\* C35 witness: with batch size 2 a full batch was flushed and committed, both
\* calls were returned BatchSize 2, and the stop case, taken afterwards with
\* nothing accumulated, issued no Write.
C35_Witness ==
    /\ batchSize = 2
    /\ loopPc = "done"
    /\ hist.stopTaken
    /\ hist.stopBatch = <<>>
    /\ Len(writes) = 1
    /\ Len(writes[1].items) = 2
    /\ CommittedWrite(1)
    /\ \A p \in Producers :
           add[p].pc = "returned" /\ add[p].ret.res.BatchSize = 2

\* C36: concurrent Close is safe.  The stop channel is never closed twice (no
\* panic), at most one flush is started by the stop case, and no Close call
\* has returned before the loop has ended its final flush and returned.
C36_ConcurrentCloseSafe ==
    /\ ~panicked
    /\ Cardinality({w \in 1..Len(writes) : writes[w].cause = "stop"}) <= 1
    /\ \A c \in Closers : cls[c].pc = "returned" => (done /\ loopPc = "done")

\* C37: success implies commit.  An Add call that has returned a nil error is
\* of a batch whose ledger Write returned no error, and the outcome it returned
\* carries that batch's root and transaction id, neither of them empty.
C37_SuccessImpliesCommit ==
    \A p \in Producers :
        (add[p].pc = "returned" /\ add[p].ret.err.isNil) =>
            /\ \E w \in WritesOf(p) : CommittedWrite(w)
            /\ add[p].ret.res.Root # EmptyString
            /\ add[p].ret.res.TxID # <<>>

\* C38: every Close call eventually returns, each ledger Write returning.
C38_CloseReturns ==
    \A c \in Closers : (cls[c].pc # "idle") ~> (cls[c].pc = "returned")

\* The batch of writes[w] holds exactly one leaf.
SingleLeafWrite(w) == Len(writes[w].items) = 1

\* The leaf of a single-leaf batch.
OnlyLeaf(w) == add[writes[w].items[1]].leaf

\* The outcome res is that of a committed batch whose only leaf is leaf: the
\* root is the leaf's hex, the proof is empty, Index is 0, BatchSize is 1, and
\* VerifyMerkleProof accepts the leaf with that proof against that root.
SingleLeafOutcome(res, leaf) ==
    /\ res.Root = EncodeToString(leaf)
    /\ res.Proof = <<>>
    /\ res.Index = 0
    /\ res.BatchSize = 1
    /\ res.Err = <<>>
    /\ VerifyMerkleProof(EncodeToString(leaf), JsonMarshal(res.Proof), res.Root)
           = [ok |-> TRUE, err |-> NilErr]

\* C39: single-leaf batch.  Whatever started its flush, the digest written for
\* a batch of one leaf is the hex of the leaf itself; when the batch is
\* committed, the outcome sent for the leaf, and returned by its Add call, has
\* that root, an empty proof, Index 0 and BatchSize 1, and the empty proof
\* verifies the leaf against the root.
C39_SingleLeafBatch ==
    \A w \in 1..Len(writes) :
        SingleLeafWrite(w) =>
            /\ writes[w].cause \in {"size", "timer", "stop"}
            /\ writes[w].cause = "size" <=> batchSize = 1
            /\ writes[w].digest = EncodeToString(OnlyLeaf(w))
            /\ CommittedWrite(w) =>
                   LET p == writes[w].items[1]
                   IN  /\ p \in SentOf(w) => SingleLeafOutcome(FirstSent(p), OnlyLeaf(w))
                       /\ add[p].pc = "returned" =>
                              /\ add[p].ret.err.isNil
                              /\ SingleLeafOutcome(add[p].ret.res, OnlyLeaf(w))

\* C39 witness: with batch size 2, one batch of a single leaf was flushed by
\* the timer and another by shutdown; both were committed and both Add calls
\* have returned their outcomes.
C39_Witness ==
    /\ batchSize = 2
    /\ Len(writes) = 2
    /\ SingleLeafWrite(1) /\ writes[1].cause = "timer" /\ CommittedWrite(1)
    /\ SingleLeafWrite(2) /\ writes[2].cause = "stop" /\ CommittedWrite(2)
    /\ \A p \in Producers :
           /\ add[p].pc = "returned"
           /\ add[p].ret.res.Root = EncodeToString(add[p].leaf)
           /\ add[p].ret.res.BatchSize = 1

\* The position (1-based) at which the loop received p's item.
RecvPos(p) == CHOOSE k \in 1..Len(hist.recv) : hist.recv[k] = p

\* C40: commit order follows arrival order across batches.  When leaf x was
\* received by the loop before leaf y and Writes have been issued for two
\* different batches holding them, the Write of x's batch was issued first,
\* has returned, and x's outcome has been sent to its result slot: all of it
\* before the Write of y's batch was issued.
C40_CommitOrderIsArrivalOrder ==
    \A x, y \in Range(hist.recv) :
        RecvPos(x) < RecvPos(y) =>
            \A wx \in WritesOf(x) : \A wy \in WritesOf(y) :
                wx # wy =>
                    /\ wx < wy
                    /\ writes[wx].ret.returned
                    /\ x \in SentOf(wx)
                    /\ Len(hist.sent[x]) = 1

\* C40 witness: leaf 2 was received before leaf 1 and they went into different
\* batches; the Write for leaf 1's batch has just been issued, the one for
\* leaf 2's batch having returned and leaf 2's outcome having been sent.
C40_Witness ==
    /\ hist.recv = <<2, 1>>
    /\ Len(writes) = 2
    /\ writes[1].items = <<2>>
    /\ writes[2].items = <<1>>
    /\ writes[1].ret.returned
    /\ ~writes[2].ret.returned
    /\ Len(hist.sent[2]) = 1
    /\ loopPc = "ledger"

====
